---- MODULE Spec2Model ----
(***************************************************************************)
(* A model of the ASIP ingestion pipeline and API handlers.                *)
(*                                                                         *)
(* The repository is a set of independent scripts and route handlers, so   *)
(* the module holds one specification per subsystem over one set of        *)
(* variables; a subsystem's actions leave the other subsystems' variables  *)
(* unchanged, and a specification starts the others in their idle state.   *)
(*                                                                         *)
(*   SpecScore    calculateQualityScore (import-merged.js, process-data)   *)
(*   SpecDedup    the deduplication steps of collectAll, processRawData    *)
(*                and importData (import-merged.js)                        *)
(*   SpecImport   importData of import-merged.js and import-to-supabase.js  *)
(*                against the cases table                                  *)
(*   SpecExtractFn  extractCaseStructuredData of extract-db.js             *)
(*   SpecExtractDb  main of extract-db.js                                  *)
(*   SpecBatch    batchExtractStructuredData (llm-extract, script)         *)
(*   SpecCollect  collectGitHubData and collectGitHub                      *)
(*   SpecChat     POST /api/chat                                           *)
(*   SpecConc     the external calls in flight in the handlers             *)
(*   SpecTask     the task store and GET, POST /api/chat/task              *)
(*   SpecTaskLive SpecTask with every LLM call of a flow returning         *)
(*   SpecRoi      POST /api/roi                                            *)
(*   SpecGetCases caseDb.getCases, page after page                         *)
(*   SpecInfer    inferIndustry and inferUseCase (import-merged.js,        *)
(*                process-data)                                            *)
(***************************************************************************)
EXTENDS Integers, Sequences, FiniteSets, TLC

VARIABLES
    scItem,     \* the item handed to the scorers
    scOut,      \* scorer name -> [stars, total] in tenths, or NoScore
    ddIn,       \* the records handed to the deduplication steps
    ddOut,      \* step name -> [ran, data]: the step's output
    cases,      \* the cases table: source_url -> number of rows holding it
    imPc,       \* the import script that is running, or "idle"
    imData,     \* the records the running script loops over
    imI,        \* the running script's loop index i
    imported,   \* the running (or last) script's counters
    skipped,
    failed,
    imRuns,     \* number of import runs started
    imRun,      \* the running (or last) run: script, file, table at its start
    imPrev,     \* the run before it
    exPc,       \* extract-db.js main: "idle", "loop", "done" or "exit"
    exN,        \* number of cases the select returned
    exI,        \* loop index i
    exSuccess,  \* the counters success, skipped, failed
    exSkipped,
    exFailed,
    exCall,     \* the LLM call made for the last case handled
    exResult,   \* what extractCaseStructuredData did for it
    exUpdates,  \* [ok, err]: updates that returned without / with an error
    fnCall,     \* extractCaseStructuredData alone: the LLM call it makes
    fnResult,   \* and what it did
    baVariant,  \* batchExtractStructuredData: "ts" (llm-extract) or "js" (script)
    baProjects, \* its argument projects
    baProgress, \* whether an onProgress callback was passed
    baPc,       \* "idle", "loop", "returned" or "threw"
    baI,        \* loop index i
    baResults,  \* results
    baCalls,    \* the LLM call made for each item so far
    baTicks,    \* calls of onProgress
    baSleeps,   \* rate-limit sleeps taken
    coWhich,    \* the collector running: "collectGitHubData" or "collectGitHub"
    coPc,       \* "idle", "loop", "done" or "threw"
    coQuery,    \* index of the query being searched
    coPage,     \* page
    coRequests, \* search requests issued so far
    coSince,    \* ms slept since the last search request returned
    coLastGap,  \* coSince when the last search request was issued; -1 for the first
    chRequest,  \* POST /api/chat: the request body
    chEnv,      \* what the LLM and the database do while it is handled
    chResponse, \* the response, once the handler has returned
    cnHandler,  \* the handler or script whose awaits are followed
    cnPc,       \* where it is
    cnOut,      \* the external calls issued and not yet returned
    cnResponded, \* whether it has returned its response
    cnN,        \* the cases it works on
    cnI,        \* loop index, or step of the background flow
    cnTask,     \* status of the task of POST /api/chat/task
    cnCalls,    \* external calls issued so far
    cnFailed,   \* calls that returned a failure
    tkStore,    \* the task store: task id -> task, or NoTask
    tkNext,     \* the id the next createTask makes
    tkFlow,     \* task id -> the step of runBrainstormFlow awaited, 0 when none
    tkExpired,  \* the tasks created more than maxAge ago
    tkHistory,  \* task id -> the statuses the task was given, in order
    tkLost,     \* the tasks whose update found no task
    tkReported, \* the tasks GET has reported as processing
    tkPost,     \* status of the last POST /api/chat/task response, 0 when none
    tkGet,      \* the last GET /api/chat/task: request and response
    roBody,     \* the body of a POST /api/roi request
    roLlm,      \* what the LLM call of calculateROI does
    roResponse, \* the response of POST /api/roi
    gcRows,     \* the number of rows of the cases table that pass the filters
    gcLimit,    \* the limit option of the getCases calls
    gcOffset,   \* the offset option of the next getCases call
    gcPages,    \* the calls made: offset asked and what getCases returned
    nfItem,     \* the raw item handed to inferIndustry and inferUseCase
    nfOut       \* script -> the labels it infers for the item, or NotInferred

varsScore == <<scItem, scOut>>
varsDedup == <<ddIn, ddOut>>
varsImport ==
    <<cases, imPc, imData, imI, imported, skipped, failed, imRuns, imRun, imPrev>>

varsExtractDb ==
    <<exPc, exN, exI, exSuccess, exSkipped, exFailed, exCall, exResult, exUpdates>>

varsExtractFn == <<fnCall, fnResult>>
varsBatch ==
    <<baVariant, baProjects, baProgress, baPc, baI, baResults, baCalls, baTicks,
      baSleeps>>

varsCollect == <<coWhich, coPc, coQuery, coPage, coRequests, coSince, coLastGap>>

varsChat == <<chRequest, chEnv, chResponse>>

varsConc ==
    <<cnHandler, cnPc, cnOut, cnResponded, cnN, cnI, cnTask, cnCalls, cnFailed>>

varsTask == <<tkStore, tkNext, tkFlow, tkExpired, tkHistory, tkLost, tkReported, tkPost, tkGet>>

varsRoi == <<roBody, roLlm, roResponse>>

varsGetCases == <<gcRows, gcLimit, gcOffset, gcPages>>

varsInfer == <<nfItem, nfOut>>

vars ==
    <<varsScore, varsDedup, varsImport, varsExtractDb, varsExtractFn, varsBatch,
      varsCollect, varsChat, varsConc,
      varsTask,
      varsRoi,
      varsGetCases,
      varsInfer>>

othersScore ==
    <<varsDedup, varsImport, varsExtractDb, varsExtractFn, varsBatch,
      varsCollect, varsChat, varsConc,
      varsTask,
      varsRoi,
      varsGetCases,
      varsInfer>>
othersDedup ==
    <<varsScore, varsImport, varsExtractDb, varsExtractFn, varsBatch,
      varsCollect, varsChat, varsConc,
      varsTask,
      varsRoi,
      varsGetCases,
      varsInfer>>
othersImport ==
    <<varsScore, varsDedup, varsExtractDb, varsExtractFn, varsBatch,
      varsCollect, varsChat, varsConc,
      varsTask,
      varsRoi,
      varsGetCases,
      varsInfer>>
othersExtractDb ==
    <<varsScore, varsDedup, varsImport, varsExtractFn, varsBatch,
      varsCollect, varsChat, varsConc,
      varsTask,
      varsRoi,
      varsGetCases,
      varsInfer>>
othersExtractFn ==
    <<varsScore, varsDedup, varsImport, varsExtractDb, varsBatch,
      varsCollect, varsChat, varsConc,
      varsTask,
      varsRoi,
      varsGetCases,
      varsInfer>>
othersBatch ==
    <<varsScore, varsDedup, varsImport, varsExtractDb, varsExtractFn,
      varsCollect, varsChat, varsConc,
      varsTask,
      varsRoi,
      varsGetCases,
      varsInfer>>
othersCollect ==
    <<varsScore, varsDedup, varsImport, varsExtractDb, varsExtractFn, varsBatch,
      varsChat, varsConc,
      varsTask,
      varsRoi,
      varsGetCases,
      varsInfer>>
othersChat ==
    <<varsScore, varsDedup, varsImport, varsExtractDb, varsExtractFn, varsBatch,
      varsCollect, varsConc,
      varsTask,
      varsRoi,
      varsGetCases,
      varsInfer>>
othersConc ==
    <<varsScore, varsDedup, varsImport, varsExtractDb, varsExtractFn, varsBatch,
      varsCollect, varsChat,
      varsTask,
      varsRoi,
      varsGetCases,
      varsInfer>>
othersTask ==
    <<varsScore, varsDedup, varsImport, varsExtractDb, varsExtractFn,
      varsBatch, varsCollect, varsChat, varsConc,
      varsRoi,
      varsGetCases,
      varsInfer>>
othersRoi ==
    <<varsScore, varsDedup, varsImport, varsExtractDb, varsExtractFn,
      varsBatch, varsCollect, varsChat, varsConc, varsTask,
      varsGetCases,
      varsInfer>>
othersGetCases ==
    <<varsScore, varsDedup, varsImport, varsExtractDb, varsExtractFn,
      varsBatch, varsCollect, varsChat, varsConc, varsTask, varsRoi,
      varsInfer>>
othersInfer ==
    <<varsScore, varsDedup, varsImport, varsExtractDb, varsExtractFn,
      varsBatch, varsCollect, varsChat, varsConc, varsTask, varsRoi,
      varsGetCases>>

\* The JavaScript value undefined (a missing field), for string-valued fields.
Missing == "<undefined>"

\* An optional number: None when the field is missing, Some(n) otherwise.
None == <<>>
Some(n) == <<n>>

Min(a, b) == IF a < b THEN a ELSE b
Max(a, b) == IF a > b THEN a ELSE b

\* JSON values other than texts: null, the numbers 0 and 1, false.
JsNull == "<null>"
JsZero == "<0>"
JsOne == "<1>"
JsFalse == "<false>"

\* JavaScript truthiness of a field, and a || b.
Falsy == {Missing, JsNull, "", JsZero, JsFalse}
Truthy(v) == v \notin Falsy
OrElse(a, b) == IF Truthy(a) THEN a ELSE b

\* A template literal `${v}` prints a missing value as "undefined".
TemplateStr(v) == IF v = Missing THEN "undefined" ELSE v

(***************************************************************************)
(* The idle state of each subsystem: what its variables hold while another *)
(* subsystem's specification runs.                                         *)
(***************************************************************************)
Scorers == {"merged", "process"}
NoScore == [stars |-> -1, total |-> -1]
NoItem == [stars |-> None, descLen |-> None, topics |-> None,
           language |-> Missing, source |-> Missing]
IdleScore == scItem = NoItem /\ scOut = [s \in Scorers |-> NoScore]

Steps == {"collectAll", "processRawData", "importData"}
NotRun == [ran |-> FALSE, data |-> <<>>]
IdleDedup == ddIn = <<>> /\ ddOut = [s \in Steps |-> NotRun]

TableUrls == {"", "u1", "u2"}
EmptyTable == [u \in TableUrls |-> 0]
NoRun == [script |-> "none"]
IdleImport ==
    /\ cases = EmptyTable /\ imPc = "idle" /\ imData = <<>> /\ imI = 0
    /\ imported = 0 /\ skipped = 0 /\ failed = 0 /\ imRuns = 0
    /\ imRun = NoRun /\ imPrev = NoRun

\* The seven structured fields asked of the LLM.
Fields ==
    {"pain_point", "solution_approach", "business_function", "target_company",
     "implementation_complexity", "competitive_advantage", "use_case_summary"}
NoCall == [kind |-> "none", text |-> <<>>, members |-> [f \in Fields |-> Missing]]
NoResult == [kind |-> "none"]
IdleExtractDb ==
    /\ exPc = "idle" /\ exN = 0 /\ exI = 0
    /\ exSuccess = 0 /\ exSkipped = 0 /\ exFailed = 0
    /\ exCall = NoCall /\ exResult = NoResult
    /\ exUpdates = [ok |-> 0, err |-> 0]
IdleExtractFn == fnCall = NoCall /\ fnResult = NoResult
IdleBatch ==
    /\ baVariant = "none" /\ baProjects = <<>> /\ baProgress = FALSE
    /\ baPc = "idle" /\ baI = 0 /\ baResults = <<>> /\ baCalls = <<>>
    /\ baTicks = 0 /\ baSleeps = 0
IdleCollect ==
    /\ coWhich = "none" /\ coPc = "idle" /\ coQuery = 0 /\ coPage = 0
    /\ coRequests = 0 /\ coSince = 0 /\ coLastGap = -1
NoRequest == [kind |-> "none"]
NoEnv == [llm |-> "none"]
NoResponse == [status |-> 0]
IdleChat == chRequest = NoRequest /\ chEnv = NoEnv /\ chResponse = NoResponse
IdleConc ==
    /\ cnHandler = "none" /\ cnPc = "idle" /\ cnOut = {} /\ cnResponded = FALSE
    /\ cnN = 0 /\ cnI = 0 /\ cnTask = "none" /\ cnCalls = 0 /\ cnFailed = 0
IdleTask ==
    /\ tkStore = <<>> /\ tkNext = 0 /\ tkFlow = <<>> /\ tkExpired = {}
    /\ tkHistory = <<>> /\ tkLost = {} /\ tkReported = {} /\ tkPost = 0
    /\ tkGet = [flip |-> FALSE]
IdleRoi ==
    /\ roBody = [kind |-> "none"] /\ roLlm = [kind |-> "none"]
    /\ roResponse = [status |-> 0]
IdleGetCases ==
    /\ gcRows = 0 /\ gcLimit = None /\ gcOffset = None /\ gcPages = <<>>
NotInferred == [returned |-> "<not run>"]
IdleInfer ==
    /\ nfItem = NotInferred /\ nfOut = <<>>

(***************************************************************************)
(* Quality score.  Scores are kept in tenths: every weight of the code is  *)
(* a multiple of 0.1, and 10 stands for 1.0.                                *)
(***************************************************************************)
StarsTier4 == 10000
StarsTier3 == 1000
StarsTier2 == 100
StarsTier1 == 10
DescMinLen == 20
ScoreCap == 10

Sources == {"GitHub", "HackerNews", "Reddit"}

\* item.stars || 0 : a missing (or zero) star count reads as 0.
StarsOrZero(item) == IF item.stars = None THEN 0 ELSE item.stars[1]

\* import-merged.js: the stars tier, 0.5 down to 0.1.
StarsScoreMergedNoTopTier(item) ==
    LET stars == StarsOrZero(item) IN
    IF stars > StarsTier3 THEN 4
    ELSE IF stars > StarsTier2 THEN 3
    ELSE IF stars > StarsTier1 THEN 2
    ELSE 1

StarsScoreMerged(item) ==
    LET stars == StarsOrZero(item) IN
    IF stars > StarsTier4 THEN 5
    ELSE IF stars > StarsTier3 THEN 4
    ELSE IF stars > StarsTier2 THEN 3
    ELSE IF stars > StarsTier1 THEN 2
    ELSE 1

\* process-data: the stars tier, 0.4 down to 0.1 (no tier above 1000).
StarsScoreProcess(item) ==
    LET stars == StarsOrZero(item) IN
    IF stars > StarsTier3 THEN 4
    ELSE IF stars > StarsTier2 THEN 3
    ELSE IF stars > StarsTier1 THEN 2
    ELSE 1

\* item.description && item.description.length > 20
HasDescription(item) == item.descLen # None /\ item.descLen[1] > DescMinLen

\* item.topics && item.topics.length > 0
HasTopics(item) == item.topics # None /\ item.topics[1] > 0

\* A scorer that also adds the language weight and forgets Math.min.
calculateQualityScoreMergedUncapped(item) ==
    StarsScoreMerged(item)
    + (IF HasDescription(item) THEN 2 ELSE 0)
    + (IF HasTopics(item) THEN 2 ELSE 0)
    + (IF item.language # Missing THEN 2 ELSE 0)
    + (IF item.source = "GitHub" THEN 1 ELSE 0)

calculateQualityScoreMerged(item) ==
    Min(StarsScoreMerged(item)
        + (IF HasDescription(item) THEN 2 ELSE 0)
        + (IF HasTopics(item) THEN 2 ELSE 0)
        + (IF item.source = "GitHub" THEN 1 ELSE 0),
        ScoreCap)

calculateQualityScoreProcess(item) ==
    Min(StarsScoreProcess(item)
        + (IF HasDescription(item) THEN 2 ELSE 0)
        + (IF HasTopics(item) THEN 2 ELSE 0)
        + (IF item.language # Missing THEN 2 ELSE 0),
        ScoreCap)

\* The items the scorers are tried on: star counts on both sides of every
\* tier, missing, zero and negative; descriptions around the length limit.
StarsValues ==
    {None} \cup
    {Some(n) : n \in {-5, 0, 5 * StarsTier4} \cup
        UNION {{t, t + 1} : t \in {StarsTier1, StarsTier2, StarsTier3, StarsTier4}}}
DescLens == {None, Some(0), Some(DescMinLen), Some(DescMinLen + 1)}
TopicCounts == {None, Some(0), Some(2)}
Languages == {Missing, "Python"}

ScoreItems ==
    [stars : StarsValues, descLen : DescLens, topics : TopicCounts,
     language : Languages, source : Sources \cup {Missing}]

InitScore ==
    /\ scItem \in ScoreItems
    /\ scOut = [s \in Scorers |-> NoScore]
    /\ IdleDedup /\ IdleImport /\ IdleExtractDb /\ IdleExtractFn /\ IdleBatch /\ IdleCollect
    /\ IdleChat /\ IdleConc /\ IdleTask /\ IdleRoi /\ IdleGetCases /\ IdleInfer

ScoreMerged ==
    /\ scOut["merged"] = NoScore
    /\ scOut' = [scOut EXCEPT !["merged"] =
                    [stars |-> StarsScoreMerged(scItem),
                     total |-> calculateQualityScoreMerged(scItem)]]
    /\ UNCHANGED <<scItem, othersScore>>

ScoreProcess ==
    /\ scOut["process"] = NoScore
    /\ scOut' = [scOut EXCEPT !["process"] =
                    [stars |-> StarsScoreProcess(scItem),
                     total |-> calculateQualityScoreProcess(scItem)]]
    /\ UNCHANGED <<scItem, othersScore>>

NextScore == ScoreMerged \/ ScoreProcess

SpecScore == InitScore /\ [][NextScore]_vars

\* C3: every score either scorer returns lies within [0, 1].
C3_ScoreInUnitInterval ==
    \A s \in Scorers :
        scOut[s] # NoScore => (scOut[s].total >= 0 /\ scOut[s].total <= ScoreCap)

\* C3 witness: both scorers have scored an item that collects every bonus
\* and were capped at 1.0.
C3_Witness ==
    /\ scOut["merged"] # NoScore /\ scOut["process"] # NoScore
    /\ scItem.stars = Some(5 * StarsTier4) /\ HasDescription(scItem) /\ HasTopics(scItem)
    /\ scItem.language # Missing /\ scItem.source = "GitHub"
    /\ scOut["merged"].total = ScoreCap /\ scOut["process"].total = ScoreCap

\* C4 (as stated): above 10000 stars the stars part is 0.5 in each scorer.
C4_Original ==
    \A s \in Scorers :
        (scOut[s] # NoScore /\ StarsOrZero(scItem) > StarsTier4)
            => scOut[s].stars = 5

\* C4 (amended): above 10000 stars the stars part is 0.5 in import-merged.js
\* and 0.4 in the process-data scorer, whose top tier is stars > 1000.
C4_StarsContribution ==
    (StarsOrZero(scItem) > StarsTier4) =>
        /\ scOut["merged"] # NoScore => scOut["merged"].stars = 5
        /\ scOut["process"] # NoScore => scOut["process"].stars = 4

C4_Witness ==
    /\ StarsOrZero(scItem) > StarsTier4
    /\ scOut["merged"] # NoScore /\ scOut["process"] # NoScore

(***************************************************************************)
(* Deduplication steps.  Each step is a pure function of the record list;  *)
(* a record keeps its input position in pos so that survivors can be told  *)
(* apart.                                                                  *)
(***************************************************************************)
MaxDedupLen == 3

\* collectAll: const key = `${item.source}:${item.source_url}`
CollectKey(item) == TemplateStr(item.source) \o ":" \o TemplateStr(item.source_url)

\* collectAll: allData.filter(item => { if (seen.has(key)) return false; seen.add(key); return true })
RECURSIVE FilterCollectAll(_, _)
FilterCollectAll(items, seen) ==
    IF items = <<>> THEN <<>>
    ELSE LET item == Head(items)
             key == CollectKey(item)
         IN IF key \in seen
            THEN FilterCollectAll(Tail(items), seen)
            ELSE <<item>> \o FilterCollectAll(Tail(items), seen \cup {key})

\* The records of allData, in order.
RECURSIVE TagFrom(_, _)
TagFrom(items, pos) ==
    IF items = <<>> THEN <<>>
    ELSE <<[source |-> Head(items).source, source_url |-> Head(items).source_url,
            pos |-> pos]>> \o TagFrom(Tail(items), pos + 1)

collectAllDedupe(allData) == FilterCollectAll(TagFrom(allData, 1), {})

\* processRawData: rawData.map(item => ({..., source_url: item.source_url || item.html_url,
\* quality_score: calculateQualityScore(item)}))
RECURSIVE MapProcessRaw(_, _)
MapProcessRaw(items, pos) ==
    IF items = <<>> THEN <<>>
    ELSE <<[source |-> OrElse(Head(items).source, "GitHub"),
            source_url |-> OrElse(Head(items).source_url, Head(items).html_url),
            quality_score |-> calculateQualityScoreProcess(Head(items)),
            pos |-> pos]>> \o MapProcessRaw(Tail(items), pos + 1)

\* processed.sort((a, b) => b.quality_score - a.quality_score): Array.prototype.sort
\* is stable, so records of equal score keep their order.
RECURSIVE InsertByQuality(_, _)
InsertByQuality(sorted, x) ==
    IF sorted = <<>> THEN <<x>>
    ELSE IF Head(sorted).quality_score >= x.quality_score
         THEN <<Head(sorted)>> \o InsertByQuality(Tail(sorted), x)
         ELSE <<x>> \o sorted

\* A sort that leaves the records in input order.
SortByQualityDescNot(seq) == seq

RECURSIVE SortByQualityDesc(_)
SortByQualityDesc(seq) ==
    IF seq = <<>> THEN <<>>
    ELSE InsertByQuality(SortByQualityDesc(SubSeq(seq, 1, Len(seq) - 1)), seq[Len(seq)])

\* A filter whose seen-set is never added to.
RECURSIVE FilterSeenUrlForgetful(_, _)
FilterSeenUrlForgetful(items, seen) ==
    IF items = <<>> THEN <<>>
    ELSE IF Head(items).source_url \in seen
         THEN FilterSeenUrlForgetful(Tail(items), seen)
         ELSE <<Head(items)>> \o FilterSeenUrlForgetful(Tail(items), seen)

\* processRawData: processed.filter(item => { if (seen.has(item.source_url)) return false; ... })
RECURSIVE FilterSeenUrl(_, _)
FilterSeenUrl(items, seen) ==
    IF items = <<>> THEN <<>>
    ELSE IF Head(items).source_url \in seen
         THEN FilterSeenUrl(Tail(items), seen)
         ELSE <<Head(items)>>
              \o FilterSeenUrl(Tail(items), seen \cup {Head(items).source_url})

processRawData(rawData) ==
    FilterSeenUrl(SortByQualityDesc(MapProcessRaw(rawData, 1)), {})

\* importData (import-merged.js): rawData.map(item => ({..., source: item.source || 'GitHub',
\* source_url: item.source_url || '', quality_score: calculateQualityScore(item)}))
RECURSIVE MapImportMerged(_, _)
MapImportMerged(items, pos) ==
    IF items = <<>> THEN <<>>
    ELSE <<[source |-> OrElse(Head(items).source, "GitHub"),
            source_url |-> OrElse(Head(items).source_url, ""),
            quality_score |-> calculateQualityScoreMerged(Head(items)),
            pos |-> pos]>> \o MapImportMerged(Tail(items), pos + 1)

\* importData: if (!item.source_url || seenUrls.has(item.source_url)) continue;
RECURSIVE FilterImportUnique(_, _)
FilterImportUnique(items, seenUrls) ==
    IF items = <<>> THEN <<>>
    ELSE IF ~Truthy(Head(items).source_url) \/ Head(items).source_url \in seenUrls
         THEN FilterImportUnique(Tail(items), seenUrls)
         ELSE <<Head(items)>>
              \o FilterImportUnique(Tail(items), seenUrls \cup {Head(items).source_url})

importDataUnique(rawData) == FilterImportUnique(MapImportMerged(rawData, 1), {})

\* What each step's deduplication loop is handed.
DedupInput(step, rawData) ==
    CASE step = "collectAll" -> TagFrom(rawData, 1)
      [] step = "processRawData" -> MapProcessRaw(rawData, 1)
      [] step = "importData" -> MapImportMerged(rawData, 1)

DedupOutput(step, rawData) ==
    CASE step = "collectAll" -> collectAllDedupe(rawData)
      [] step = "processRawData" -> processRawData(rawData)
      [] step = "importData" -> importDataUnique(rawData)

\* The raw records tried: two sources, a missing and two present URLs, a low
\* and a high star count.
DedupUrls == {Missing, "u1", "u2"}
DedupItems ==
    [source : {"GitHub", "HackerNews"}, source_url : DedupUrls, html_url : {Missing},
     stars : {Some(0), Some(StarsTier3 + 1)}, descLen : {None}, topics : {None},
     language : {Missing}]

SeqsUpTo(S, n) == UNION {[1..k -> S] : k \in 0..n}

InitDedup ==
    /\ ddIn \in SeqsUpTo(DedupItems, MaxDedupLen)
    /\ ddOut = [s \in Steps |-> NotRun]
    /\ IdleScore /\ IdleImport /\ IdleExtractDb /\ IdleExtractFn /\ IdleBatch /\ IdleCollect
    /\ IdleChat /\ IdleConc /\ IdleTask /\ IdleRoi /\ IdleGetCases /\ IdleInfer

RunCollectAll ==
    /\ ~ddOut["collectAll"].ran
    /\ ddOut' = [ddOut EXCEPT !["collectAll"] =
                    [ran |-> TRUE, data |-> DedupOutput("collectAll", ddIn)]]
    /\ UNCHANGED <<ddIn, othersDedup>>

RunProcessRawData ==
    /\ ~ddOut["processRawData"].ran
    /\ ddOut' = [ddOut EXCEPT !["processRawData"] =
                    [ran |-> TRUE, data |-> DedupOutput("processRawData", ddIn)]]
    /\ UNCHANGED <<ddIn, othersDedup>>

RunImportDataUnique ==
    /\ ~ddOut["importData"].ran
    /\ ddOut' = [ddOut EXCEPT !["importData"] =
                    [ran |-> TRUE, data |-> DedupOutput("importData", ddIn)]]
    /\ UNCHANGED <<ddIn, othersDedup>>

NextDedup == RunCollectAll \/ RunProcessRawData \/ RunImportDataUnique

SpecDedup == InitDedup /\ [][NextDedup]_vars

CountUrl(seq, u) == Cardinality({i \in DOMAIN seq : seq[i].source_url = u})
CountKey(seq, src, u) ==
    Cardinality({i \in DOMAIN seq : seq[i].source = src /\ seq[i].source_url = u})
UrlsOf(seq) == {seq[i].source_url : i \in DOMAIN seq}
SourcesOf(seq) == {seq[i].source : i \in DOMAIN seq}

\* C2 (as stated): in every deduplication step, of the input records that
\* carry one (non-empty) source_url, two or more of them, exactly one is in
\* the output.
C2_Original ==
    \A s \in Steps : ddOut[s].ran =>
        \A u \in UrlsOf(DedupInput(s, ddIn)) :
            (Truthy(u) /\ CountUrl(DedupInput(s, ddIn), u) >= 2)
                => CountUrl(ddOut[s].data, u) = 1

\* C2 (amended): processRawData keeps exactly one record per source_url;
\* importData keeps exactly one per non-empty source_url and none of the
\* records without one; collectAll keeps exactly one per (source, source_url),
\* so a source_url carried by several sources survives once per source.
C2_DedupPerStep ==
    /\ ddOut["processRawData"].ran =>
         LET in == DedupInput("processRawData", ddIn) IN
         \A u \in UrlsOf(in) :
            CountUrl(in, u) >= 2 => CountUrl(ddOut["processRawData"].data, u) = 1
    /\ ddOut["importData"].ran =>
         LET in == DedupInput("importData", ddIn) IN
         \A u \in UrlsOf(in) :
            CountUrl(in, u) >= 2 =>
                CountUrl(ddOut["importData"].data, u) = IF Truthy(u) THEN 1 ELSE 0
    /\ ddOut["collectAll"].ran =>
         LET in == DedupInput("collectAll", ddIn) IN
         \A u \in UrlsOf(in) :
            CountUrl(in, u) >= 2 =>
                /\ \A src \in SourcesOf(in) :
                      CountKey(ddOut["collectAll"].data, src, u)
                          = IF CountKey(in, src, u) >= 1 THEN 1 ELSE 0
                /\ CountUrl(ddOut["collectAll"].data, u)
                      = Cardinality({src \in SourcesOf(in) : CountKey(in, src, u) >= 1})

\* C2 witness: all three steps have run on three records of which two carry
\* the same source and source_url.
C2_Witness ==
    /\ \A s \in Steps : ddOut[s].ran
    /\ Len(ddIn) = 3
    /\ \E i, j \in DOMAIN ddIn :
          /\ i < j
          /\ ddIn[i].source_url = "u1" /\ ddIn[j].source_url = "u1"
          /\ ddIn[i].source = ddIn[j].source
    /\ Len(ddOut["processRawData"].data) = 2

(***************************************************************************)
(* The import scripts and the cases table.  The schema puts no unique      *)
(* constraint on source_url, so the table is a bag of rows; only the       *)
(* source_url of a row matters here.  A batch insert is one statement: it  *)
(* inserts every row of the batch or returns an error and inserts none.    *)
(***************************************************************************)
BatchSizeMerged == 50
BatchSizeSupabase == 100
MaxRuns == 2
MaxFileLen == 2

ImportItems ==
    [source : {"GitHub"}, source_url : DedupUrls, html_url : {Missing},
     stars : {Some(0)}, descLen : {None}, topics : {None}, language : {Missing}]
ImportFiles == SeqsUpTo(ImportItems, MaxFileLen)

\* cases.slice(i, i + batchSize)
Slice(seq, i, n) == SubSeq(seq, i + 1, Min(i + n, Len(seq)))

\* The table after the rows of batch are inserted.
InsertRows(table, batch) ==
    [u \in TableUrls |-> table[u] + CountUrl(batch, u)]

\* import-to-supabase.js: batch.map(item => ({..., source_url: item.source_url || item.html_url || ''}))
RECURSIVE MapSupabaseRecords(_)
MapSupabaseRecords(batch) ==
    IF batch = <<>> THEN <<>>
    ELSE <<[source |-> "GitHub",
            source_url |-> OrElse(OrElse(Head(batch).source_url, Head(batch).html_url), "")]>>
         \o MapSupabaseRecords(Tail(batch))

\* What is kept of a run: the script, the data file it read, the table it
\* found, and whether every batch insert it made has succeeded.
StartedRun(script, file, table) ==
    [script |-> script, file |-> file, start |-> table, insertsOk |-> TRUE]

InitImport ==
    /\ cases = EmptyTable /\ imPc = "idle" /\ imData = <<>> /\ imI = 0
    /\ imported = 0 /\ skipped = 0 /\ failed = 0 /\ imRuns = 0
    /\ imRun = NoRun /\ imPrev = NoRun
    /\ IdleScore /\ IdleDedup /\ IdleExtractDb /\ IdleExtractFn /\ IdleBatch /\ IdleCollect
    /\ IdleChat /\ IdleConc /\ IdleTask /\ IdleRoi /\ IdleGetCases /\ IdleInfer

\* import-merged.js importData, up to the batch loop: read the file, map,
\* deduplicate.
StartImportMerged ==
    /\ imPc = "idle" /\ imRuns < MaxRuns
    /\ \E rawData \in ImportFiles :
          /\ imData' = importDataUnique(rawData)
          /\ imRun' = StartedRun("merged", rawData, cases)
    /\ imPrev' = imRun
    /\ imPc' = "merged" /\ imI' = 0
    /\ imported' = 0 /\ skipped' = 0 /\ failed' = 0
    /\ imRuns' = imRuns + 1
    /\ UNCHANGED <<cases, othersImport>>

\* import-merged.js importData, one pass of the batch loop: select the
\* source_urls already stored (an error leaves existing undefined, read as
\* none stored), insert the others, count.
ImportMergedBatch ==
    /\ imPc = "merged" /\ imI < Len(imData)
    /\ LET batch == Slice(imData, imI, BatchSizeMerged) IN
       \E selectOk \in BOOLEAN, insertOk \in BOOLEAN :
          LET existingUrls == IF selectOk
                              THEN {u \in UrlsOf(batch) : cases[u] > 0}
                              ELSE {}
              newBatch == SelectSeq(batch, LAMBDA b : b.source_url \notin existingUrls)
          IN IF Len(newBatch) > 0
             THEN IF insertOk
                  THEN /\ cases' = InsertRows(cases, newBatch)
                       /\ imported' = imported + Len(newBatch)
                       /\ UNCHANGED <<skipped, imRun>>
                  ELSE /\ skipped' = skipped + Len(batch)
                       /\ imRun' = [imRun EXCEPT !.insertsOk = FALSE]
                       /\ UNCHANGED <<cases, imported>>
             ELSE /\ skipped' = skipped + Len(batch)
                  /\ UNCHANGED <<cases, imported, imRun>>
    /\ imI' = imI + BatchSizeMerged
    /\ UNCHANGED <<imPc, imData, failed, imRuns, imPrev, othersImport>>

\* import-merged.js importData, after the loop: report and count the table.
ImportMergedDone ==
    /\ imPc = "merged" /\ imI >= Len(imData)
    /\ imPc' = "idle"
    /\ UNCHANGED <<cases, imData, imI, imported, skipped, failed, imRuns, imRun, imPrev,
                   othersImport>>

\* import-to-supabase.js importData, up to the batch loop: read the file.
StartImportSupabase ==
    /\ imPc = "idle" /\ imRuns < MaxRuns
    /\ \E file \in ImportFiles :
          /\ imData' = file
          /\ imRun' = StartedRun("supabase", file, cases)
    /\ imPrev' = imRun
    /\ imPc' = "supabase" /\ imI' = 0
    /\ imported' = 0 /\ skipped' = 0 /\ failed' = 0
    /\ imRuns' = imRuns + 1
    /\ UNCHANGED <<cases, othersImport>>

\* import-to-supabase.js importData, one pass of the batch loop: map the
\* batch to records and insert them, with no look at what is stored.
ImportSupabaseBatch ==
    /\ imPc = "supabase" /\ imI < Len(imData)
    /\ LET batch == Slice(imData, imI, BatchSizeSupabase)
           records == MapSupabaseRecords(batch)
       IN \E insertOk \in BOOLEAN :
             IF insertOk
             THEN /\ cases' = InsertRows(cases, records)
                  /\ imported' = imported + Len(records)
                  /\ UNCHANGED <<failed, imRun>>
             ELSE /\ failed' = failed + Len(batch)
                  /\ imRun' = [imRun EXCEPT !.insertsOk = FALSE]
                  /\ UNCHANGED <<cases, imported>>
    /\ imI' = imI + BatchSizeSupabase
    /\ UNCHANGED <<imPc, imData, skipped, imRuns, imPrev, othersImport>>

ImportSupabaseDone ==
    /\ imPc = "supabase" /\ imI >= Len(imData)
    /\ imPc' = "idle"
    /\ UNCHANGED <<cases, imData, imI, imported, skipped, failed, imRuns, imRun, imPrev,
                   othersImport>>

NextImport ==
    \/ StartImportMerged \/ ImportMergedBatch \/ ImportMergedDone
    \/ StartImportSupabase \/ ImportSupabaseBatch \/ ImportSupabaseDone

SpecImport == InitImport /\ [][NextImport]_vars

\* C1: after any sequence of import runs the cases table holds at most one
\* row for each source_url value (stated for the non-empty values; rows
\* without a source_url are stored with the empty string).
C1_OneRowPerSourceUrl ==
    imPc = "idle" => \A u \in TableUrls : Truthy(u) => cases[u] <= 1

(***************************************************************************)
(* The LLM and its response.  A response text is a sequence of tokens:     *)
(* "{" and "}" are braces, "m" is a well-formed list of JSON members and   *)
(* "t" is any other text.  The members of a response are given apart, as   *)
(* the value each of the seven fields has in them.                         *)
(***************************************************************************)
MaxRespLen == 4

Tokens == {"{", "}", "m", "t"}

\* A field of the members: missing, or any JSON value; nothing makes the
\* LLM answer with texts only.
FieldText(f) == "llm:" \o f
AllText == [f \in Fields |-> FieldText(f)]
OddValues == {Missing, "", JsNull, JsZero, JsFalse, JsOne}
MemberShapes ==
    {AllText, [f \in Fields |-> Missing], [f \in Fields |-> ""]}
    \cup {[AllText EXCEPT ![f] = v] : f \in Fields, v \in OddValues}

\* What the HTTP call to the LLM can do: answer with a text, be refused by
\* the content inspection, fail otherwise, or not be made for want of a key.
FailedCalls(kinds) ==
    [kind : kinds, text : {<<>>}, members : {[f \in Fields |-> Missing]}]
LlmCalls ==
    [kind : {"ok"}, text : SeqsUpTo(Tokens, MaxRespLen), members : MemberShapes]
    \cup FailedCalls({"inspection_failed", "error", "no_key"})

\* extract-db.js callQwen: the content, null after DataInspectionFailed, or a throw.
callQwenDb(call) ==
    CASE call.kind = "ok" -> [kind |-> "text", text |-> call.text]
      [] call.kind = "inspection_failed" -> [kind |-> "null", text |-> <<>>]
      [] OTHER -> [kind |-> "throw", text |-> <<>>]

\* result.match(/\{[\s\S]*\}/): from the first "{" to the last "}" after it;
\* <<>> when there is no match.
RECURSIVE FirstIndexOf(_, _, _)
FirstIndexOf(text, tok, from) ==
    IF from > Len(text) THEN 0
    ELSE IF text[from] = tok THEN from
    ELSE FirstIndexOf(text, tok, from + 1)

RECURSIVE LastIndexOf(_, _, _)
LastIndexOf(text, tok, downTo) ==
    IF Len(text) < downTo THEN 0
    ELSE LET i == LastIndexOf(text, tok, downTo + 1) IN
         IF i # 0 THEN i
         ELSE IF text[downTo] = tok THEN downTo ELSE 0

MatchJsonBlock(text) ==
    LET a == FirstIndexOf(text, "{", 1)
        b == IF a = 0 THEN 0 ELSE LastIndexOf(text, "}", a + 1)
    IN IF a = 0 \/ b = 0 THEN <<>> ELSE SubSeq(text, a, b)

\* JSON.parse(jsonMatch[0]) succeeds on {} and on {members}.
JsonParseOk(block) == block = <<"{", "}">> \/ block = <<"{", "m", "}">>

\* The object JSON.parse returns.
JsonParse(block, members) ==
    IF block = <<"{", "m", "}">> THEN members ELSE [f \in Fields |-> Missing]

\* parsed.x || fallback
FieldOr(parsed, f, fallback) == IF Truthy(parsed[f]) THEN parsed[f] ELSE fallback

Threw == [kind |-> "threw"]
ReturnedNull == [kind |-> "null"]
Returned(fields) == [kind |-> "value", fields |-> fields]

\* An extractor that answers a parse failure with a record of nulls.
extractCaseStructuredDataDbNeverNull(call) ==
    LET result == callQwenDb(call) IN
    IF result.kind = "throw" THEN Threw
    ELSE LET jsonMatch == MatchJsonBlock(result.text) IN
         IF jsonMatch # <<>> /\ JsonParseOk(jsonMatch)
         THEN Returned([f \in Fields |->
                          FieldOr(JsonParse(jsonMatch, call.members), f, JsNull)])
         ELSE Returned([f \in Fields |-> JsNull])

\* extract-db.js extractCaseStructuredData.
extractCaseStructuredDataDb(call) ==
    LET result == callQwenDb(call) IN
    IF result.kind = "throw" THEN Threw
    ELSE IF result.kind = "null" \/ result.text = <<>> THEN ReturnedNull
    ELSE LET jsonMatch == MatchJsonBlock(result.text) IN
         IF jsonMatch # <<>>
         THEN IF JsonParseOk(jsonMatch)
              THEN Returned([f \in Fields |->
                               FieldOr(JsonParse(jsonMatch, call.members), f, JsNull)])
              ELSE ReturnedNull
         ELSE ReturnedNull

(***************************************************************************)
(* extractCaseStructuredData of extract-db.js applied to one LLM call.     *)
(***************************************************************************)
InitExtractFn ==
    /\ fnCall \in LlmCalls
    /\ fnResult = NoResult
    /\ IdleScore /\ IdleDedup /\ IdleImport /\ IdleExtractDb /\ IdleBatch /\ IdleCollect
    /\ IdleChat /\ IdleConc /\ IdleTask /\ IdleRoi /\ IdleGetCases /\ IdleInfer

ApplyExtractDb ==
    /\ fnResult = NoResult
    /\ fnResult' = extractCaseStructuredDataDb(fnCall)
    /\ UNCHANGED <<fnCall, othersExtractFn>>

NextExtractFn == ApplyExtractDb

SpecExtractFn == InitExtractFn /\ [][NextExtractFn]_vars

(***************************************************************************)
(* extract-db.js main: select the cases without a pain_point, and for each *)
(* one call the extractor and write the result back.                       *)
(***************************************************************************)
MaxCases == 2

\* The LLM calls the loop is run against: one of each way the extractor ends.
SampleCalls ==
    [kind : {"ok"},
     text : {<<>>, <<"t">>, <<"{", "}">>, <<"{", "m", "}">>, <<"{", "t", "}">>},
     members : {AllText, [f \in Fields |-> Missing]}]
    \cup FailedCalls({"inspection_failed", "error", "no_key"})

InitExtractDb ==
    /\ exPc = "idle" /\ exN = 0 /\ exI = 0
    /\ exSuccess = 0 /\ exSkipped = 0 /\ exFailed = 0
    /\ exCall = NoCall /\ exResult = NoResult
    /\ exUpdates = [ok |-> 0, err |-> 0]
    /\ IdleScore /\ IdleDedup /\ IdleImport /\ IdleExtractFn /\ IdleBatch /\ IdleCollect
    /\ IdleChat /\ IdleConc /\ IdleTask /\ IdleRoi /\ IdleGetCases /\ IdleInfer

\* main up to the loop: the select fails (process.exit(1)), or returns no
\* case (return), or returns the cases to handle.
ExtractDbStart ==
    /\ exPc = "idle"
    /\ \E selectOk \in BOOLEAN, n \in 0..MaxCases :
          /\ exN' = IF selectOk THEN n ELSE 0
          /\ exPc' = IF ~selectOk THEN "exit" ELSE IF n = 0 THEN "done" ELSE "loop"
    /\ UNCHANGED <<exI, exSuccess, exSkipped, exFailed, exCall, exResult, exUpdates,
                   othersExtractDb>>

\* One pass of the loop.  The update's outcome is awaited but not read.
ExtractDbCase ==
    /\ exPc = "loop" /\ exI < exN
    /\ \E call \in SampleCalls, updateOk \in BOOLEAN :
          LET result == extractCaseStructuredDataDb(call) IN
          /\ exCall' = call
          /\ exResult' = result
          /\ IF result.kind = "threw"
             THEN /\ exFailed' = exFailed + 1
                  /\ UNCHANGED <<exSuccess, exSkipped, exUpdates>>
             ELSE IF result.kind = "value"
             THEN /\ exUpdates' = IF updateOk
                                  THEN [exUpdates EXCEPT !.ok = @ + 1]
                                  ELSE [exUpdates EXCEPT !.err = @ + 1]
                  /\ exSuccess' = exSuccess + 1
                  /\ UNCHANGED <<exSkipped, exFailed>>
             ELSE /\ exSkipped' = exSkipped + 1
                  /\ UNCHANGED <<exSuccess, exFailed, exUpdates>>
    /\ exI' = exI + 1
    /\ UNCHANGED <<exPc, exN, othersExtractDb>>

ExtractDbDone ==
    /\ exPc = "loop" /\ exI >= exN
    /\ exPc' = "done"
    /\ UNCHANGED <<exN, exI, exSuccess, exSkipped, exFailed, exCall, exResult,
                   exUpdates, othersExtractDb>>

NextExtractDb == ExtractDbStart \/ ExtractDbCase \/ ExtractDbDone

SpecExtractDb == InitExtractDb /\ [][NextExtractDb]_vars

\* C6: a record is counted as successfully written only if its update
\* returned no error: success never exceeds the updates that succeeded.
C6_SuccessOnlyWithoutError == exSuccess <= exUpdates.ok

\* The response holds a "{" with a "}" somewhere after it.
HasBlock(text) ==
    \E a, b \in DOMAIN text : a < b /\ text[a] = "{" /\ text[b] = "}"

\* The widest brace-to-brace stretch of the response.
WidestBlock(text) ==
    LET opens == {a \in DOMAIN text : text[a] = "{"}
        a == CHOOSE x \in opens : \A y \in opens : x <= y
        closes == {b \in DOMAIN text : text[b] = "}"}
        b == CHOOSE x \in closes : \A y \in closes : x >= y
    IN SubSeq(text, a, b)

\* Whether extractCaseStructuredData must return null on this call.
MustReturnNull(call) ==
    \/ call.kind = "inspection_failed"
    \/ ~HasBlock(call.text)
    \/ HasBlock(call.text) /\ ~JsonParseOk(WidestBlock(call.text))

\* The object parsed from the call's block.
ParsedOf(call) ==
    LET block == WidestBlock(call.text) IN
    IF \E i \in DOMAIN block : block[i] = "m" THEN call.members
    ELSE [f \in Fields |-> Missing]

Answered == fnResult # NoResult /\ fnCall.kind \in {"ok", "inspection_failed"}

\* C8 as stated: null exactly when the LLM call yielded null, the response
\* has no {...} block or the block is not valid JSON; otherwise each of the
\* seven fields equals the parsed object's field of that name, or is null
\* when that field is missing or empty.
C8_Original ==
    Answered =>
        /\ fnResult.kind \in {"null", "value"}
        /\ fnResult.kind = "null" <=> MustReturnNull(fnCall)
        /\ fnResult.kind = "value" =>
             /\ DOMAIN fnResult.fields = Fields
             /\ \A f \in Fields :
                   LET v == ParsedOf(fnCall)[f] IN
                   fnResult.fields[f] = IF v = Missing \/ v = "" THEN JsNull ELSE v

\* C8: extractCaseStructuredData of extract-db.js returns null exactly when
\* the LLM call yielded null, the response has no {...} block, or the block
\* is not valid JSON; otherwise each of the seven fields equals the parsed
\* object's field of that name, or is null when that field is missing or
\* is any falsy value: the empty string, null, 0 or false.
C8_ExtractDbResult ==
    Answered =>
        /\ fnResult.kind \in {"null", "value"}
        /\ fnResult.kind = "null" <=> MustReturnNull(fnCall)
        /\ fnResult.kind = "value" =>
             /\ DOMAIN fnResult.fields = Fields
             /\ \A f \in Fields :
                   LET v == ParsedOf(fnCall)[f] IN
                   fnResult.fields[f] =
                      IF v \in {Missing, "", JsNull, JsZero, JsFalse} THEN JsNull ELSE v

\* C8 witness: a response with text around a {members} block in which one
\* field is the number 0 was turned into a record with that field null and
\* the other fields copied.
C8_Witness ==
    /\ fnCall.kind = "ok"
    /\ fnCall.text = <<"t", "{", "m", "}">>
    /\ fnCall.members["pain_point"] = JsZero
    /\ fnResult.kind = "value"
    /\ fnResult.fields["use_case_summary"] = FieldText("use_case_summary")
    /\ fnResult.fields["pain_point"] = JsNull

(***************************************************************************)
(* batchExtractStructuredData, in the llm-extract module ("ts") and in the *)
(* extract-structure script ("js"), with their own callQwen and            *)
(* extractCaseStructuredData.                                              *)
(***************************************************************************)
MaxProjects == 2

\* A project is a record of these keys; Missing stands for a key it lacks.
ProjectKeys == {"project_name", "description", "pain_point"}
Project(name, description, painPoint) ==
    [project_name |-> name, description |-> description, pain_point |-> painPoint]
ProjectSamples ==
    {Project("p1", "d1", Missing), Project("p2", Missing, "old pain point"),
     Project("p3", "", Missing), Project(Missing, "d4", Missing)}

\* This callQwen throws on every failure of the call.
callQwenBatch(call) ==
    IF call.kind = "ok" THEN [kind |-> "text", text |-> call.text]
    ELSE [kind |-> "throw", text |-> <<>>]

DefaultText(f) == "default:" \o f
UseCaseDefault(projectName, description) ==
    TemplateStr(projectName) \o " - " \o OrElse(description, "AI Agent")

getDefaultStructuredData(projectName, description) ==
    [f \in Fields |->
        IF f = "use_case_summary" THEN UseCaseDefault(projectName, description)
        ELSE DefaultText(f)]

\* The per-field fallbacks of extractCaseStructuredData: its texts for
\* pain_point and solution_approach are not those of the defaults.
FieldFallback(f, projectName, description) ==
    CASE f = "use_case_summary" -> UseCaseDefault(projectName, description)
      [] f \in {"pain_point", "solution_approach"} -> "fallback:" \o f
      [] OTHER -> DefaultText(f)

\* llm-extract extractCaseStructuredData: no JSON block throws inside the
\* try, and the catch returns the defaults.
extractCaseStructuredDataTs(projectName, description, call) ==
    LET result == callQwenBatch(call) IN
    IF result.kind = "throw" THEN Threw
    ELSE LET jsonMatch == MatchJsonBlock(result.text) IN
         IF jsonMatch # <<>>
         THEN IF JsonParseOk(jsonMatch)
              THEN Returned([f \in Fields |->
                      FieldOr(JsonParse(jsonMatch, call.members), f,
                              FieldFallback(f, projectName, description))])
              ELSE Returned(getDefaultStructuredData(projectName, description))
         ELSE Returned(getDefaultStructuredData(projectName, description))

\* extract-structure extractCaseStructuredData: falls through to the defaults.
extractCaseStructuredDataJs(projectName, description, call) ==
    LET result == callQwenBatch(call)
        parsedOk == /\ result.kind = "text"
                    /\ MatchJsonBlock(result.text) # <<>>
                    /\ JsonParseOk(MatchJsonBlock(result.text))
    IN IF result.kind = "throw" THEN Threw
       ELSE IF parsedOk
       THEN Returned([f \in Fields |->
               FieldOr(JsonParse(MatchJsonBlock(result.text), call.members), f,
                       FieldFallback(f, projectName, description))])
       ELSE Returned(getDefaultStructuredData(projectName, description))

\* { ...project, ...structured }
Spread(project, structured) ==
    [k \in ProjectKeys \cup Fields |->
        IF k \in Fields THEN structured[k] ELSE project[k]]

\* One pass of a loop without the catch: a failed extraction leaves the loop.
batchItemTsNoCatch(project, call) ==
    LET structured == extractCaseStructuredDataTs(project.project_name,
                                                  project.description, call)
    IN IF structured.kind = "value"
       THEN [kind |-> "pushed", caught |-> FALSE,
             element |-> Spread(project, structured.fields)]
       ELSE [kind |-> "threw", caught |-> FALSE, element |-> project]

\* One pass of the loop of the llm-extract batchExtractStructuredData.
batchItemTs(project, call) ==
    LET structured == extractCaseStructuredDataTs(project.project_name,
                                                  project.description, call)
    IN IF structured.kind = "value"
       THEN [kind |-> "pushed", caught |-> FALSE,
             element |-> Spread(project, structured.fields)]
       ELSE [kind |-> "pushed", caught |-> TRUE,
             element |-> Spread(project,
                 getDefaultStructuredData(project.project_name, project.description))]

\* One pass of the loop of the script's batchExtractStructuredData.
batchItemJs(project, call) ==
    LET structured == extractCaseStructuredDataJs(project.project_name,
                                                  project.description, call)
    IN IF structured.kind = "value"
       THEN [kind |-> "pushed", caught |-> FALSE,
             element |-> Spread(project, structured.fields)]
       ELSE [kind |-> "pushed", caught |-> TRUE,
             element |-> Spread(project,
                 getDefaultStructuredData(project.project_name, project.description))]

\* The LLM calls the batch is run against.
BatchCalls ==
    [kind : {"ok"}, text : {<<>>, <<"t">>, <<"{", "m", "}">>, <<"{", "t", "}">>},
     members : {AllText}]
    \cup [kind : {"ok"}, text : {<<"{", "m", "}">>},
          members : {[f \in Fields |-> Missing],
                     [AllText EXCEPT !["pain_point"] = Missing],
                     [AllText EXCEPT !["use_case_summary"] = ""]}]
    \cup FailedCalls({"error", "no_key"})

InitBatch ==
    /\ baVariant \in {"ts", "js"}
    /\ baProjects \in SeqsUpTo(ProjectSamples, MaxProjects)
    /\ baProgress \in BOOLEAN
    /\ baPc = "loop" /\ baI = 0 /\ baResults = <<>> /\ baCalls = <<>>
    /\ baTicks = 0 /\ baSleeps = 0
    /\ IdleScore /\ IdleDedup /\ IdleImport /\ IdleExtractDb /\ IdleExtractFn /\ IdleCollect
    /\ IdleChat /\ IdleConc /\ IdleTask /\ IdleRoi /\ IdleGetCases /\ IdleInfer

\* The loop body: the callback, when there is one, only reports progress.
BatchPass(item, call) ==
    /\ baCalls' = Append(baCalls, call)
    /\ IF item.kind = "threw"
       THEN /\ baPc' = "threw"
            /\ UNCHANGED <<baI, baResults, baTicks, baSleeps>>
       ELSE /\ baResults' = Append(baResults, item.element)
            /\ baTicks' = IF ~item.caught /\ baProgress THEN baTicks + 1 ELSE baTicks
            /\ baSleeps' = IF ~item.caught THEN baSleeps + 1 ELSE baSleeps
            /\ baI' = baI + 1
            /\ UNCHANGED baPc
    /\ UNCHANGED <<baVariant, baProjects, baProgress, othersBatch>>

BatchItemTs ==
    /\ baPc = "loop" /\ baVariant = "ts" /\ baI < Len(baProjects)
    /\ \E call \in BatchCalls : BatchPass(batchItemTs(baProjects[baI + 1], call), call)

BatchItemJs ==
    /\ baPc = "loop" /\ baVariant = "js" /\ baI < Len(baProjects)
    /\ \E call \in BatchCalls : BatchPass(batchItemJs(baProjects[baI + 1], call), call)

BatchReturn ==
    /\ baPc = "loop" /\ baI >= Len(baProjects)
    /\ baPc' = "returned"
    /\ UNCHANGED <<baVariant, baProjects, baProgress, baI, baResults, baCalls,
                   baTicks, baSleeps, othersBatch>>

NextBatch == BatchItemTs \/ BatchItemJs \/ BatchReturn

SpecBatch == InitBatch /\ [][NextBatch]_vars

\* Extraction of an item failed: the call failed, or its response has no
\* {...} block, or the block is not valid JSON.
ExtractionFailed(call) ==
    \/ call.kind # "ok"
    \/ ~HasBlock(call.text)
    \/ ~JsonParseOk(WidestBlock(call.text))

\* C7: batchExtractStructuredData never throws; whatever the LLM calls did,
\* the list it returns has the length and order of its input, element i
\* holding project i's own fields and all seven structured fields, which are
\* the defaults when extraction of item i failed; and an LLM call was made
\* for every item, those after a failed one included.
C7_BatchTotal ==
    /\ baPc # "threw"
    /\ baPc = "loop" => Len(baResults) = baI /\ Len(baCalls) = baI
    /\ baPc = "returned" =>
         /\ Len(baResults) = Len(baProjects)
         /\ Len(baCalls) = Len(baProjects)
         /\ \A i \in DOMAIN baProjects :
               LET project == baProjects[i]
                   element == baResults[i]
               IN /\ DOMAIN element = ProjectKeys \cup Fields
                  /\ \A k \in ProjectKeys \ Fields : element[k] = project[k]
                  /\ \A f \in Fields : Truthy(element[f])
                  /\ ExtractionFailed(baCalls[i]) =>
                        \A f \in Fields :
                           element[f] =
                              getDefaultStructuredData(project.project_name,
                                                       project.description)[f]

\* C7 witness: a returned batch of two whose first LLM call failed and
\* whose second was answered: the first element holds the defaults, the
\* second the LLM's fields.
C7_Witness ==
    /\ baPc = "returned"
    /\ Len(baProjects) = 2
    /\ baCalls[1].kind = "error"
    /\ baCalls[2].kind = "ok" /\ baCalls[2].text = <<"{", "m", "}">>
    /\ baCalls[2].members = AllText
    /\ baResults[1]["pain_point"] = DefaultText("pain_point")
    /\ baResults[2]["pain_point"] = FieldText("pain_point")
    /\ baResults[2]["project_name"] = baProjects[2]["project_name"]

(***************************************************************************)
(* The two GitHub collectors: collectGitHubData of collect-github.js and   *)
(* collectGitHub of collect-all.js.  Time is the milliseconds slept.       *)
(***************************************************************************)
MaxReadmes == 1

SearchQueriesData ==
    <<"AI Agent", "AI automation", "Browser Agent", "LLM Agent", "GPT Agent",
      "Autonomous Agent", "AI chatbot", "RPA AI", "workflow automation",
      "zhineng daili">>
PagesData == 3
PageDelayData == 1000

SearchQueriesGithub ==
    <<"AI Agent", "LLM Agent", "GPT Agent", "Autonomous Agent", "AI automation",
      "Browser Agent", "workflow automation", "RPA AI">>
MaxPagesGithub == 2
RateLimitDelayGithub == 2000
LoopDelayGithub == 2000
RateLimitWaitMin == 5000
ReadmeDelay == 500
ReadmePause == 600

\* What a search request does: a page of repositories, an empty page, a
\* response that is not ok, or a rejected fetch.
PageOutcomes == {"repos", "empty", "not_ok", "rejected"}

InitCollect ==
    /\ coWhich \in {"collectGitHubData", "collectGitHub"}
    /\ coPc = "loop" /\ coQuery = 1 /\ coPage = 1
    /\ coRequests = 0 /\ coSince = 0 /\ coLastGap = -1
    /\ IdleScore /\ IdleDedup /\ IdleImport /\ IdleExtractDb /\ IdleExtractFn /\ IdleBatch
    /\ IdleChat /\ IdleConc /\ IdleTask /\ IdleRoi /\ IdleGetCases /\ IdleInfer

\* break: on to the first page of the next query.
NextQuery == coQuery' = coQuery + 1 /\ coPage' = 1

\* The end of the page loop's body: the next page, or the next query after
\* the last page.
NextPage(lastPage) ==
    IF coPage < lastPage
    THEN coPage' = coPage + 1 /\ UNCHANGED coQuery
    ELSE NextQuery

\* collectGitHubData: one pass of the page loop.  searchRepositories
\* answers [] for a response that is not ok; a rejected fetch ends the run.
CollectDataPage ==
    /\ coWhich = "collectGitHubData" /\ coPc = "loop"
    /\ coQuery <= Len(SearchQueriesData)
    /\ coRequests' = coRequests + 1
    /\ coLastGap' = IF coRequests = 0 THEN -1 ELSE coSince
    /\ \E outcome \in PageOutcomes :
          CASE outcome = "rejected" ->
                 /\ coPc' = "threw"
                 /\ coSince' = 0
                 /\ UNCHANGED <<coQuery, coPage>>
            [] outcome \in {"empty", "not_ok"} ->
                 /\ NextQuery
                 /\ coSince' = 0
                 /\ UNCHANGED coPc
            [] OTHER ->
                 /\ NextPage(PagesData)
                 /\ coSince' = PageDelayData
                 /\ UNCHANGED coPc
    /\ UNCHANGED <<coWhich, othersCollect>>

CollectDataDone ==
    /\ coWhich = "collectGitHubData" /\ coPc = "loop"
    /\ coQuery > Len(SearchQueriesData)
    /\ coPc' = "done"
    /\ UNCHANGED <<coWhich, coQuery, coPage, coRequests, coSince, coLastGap,
                   othersCollect>>

\* collectGitHub: one pass of the page loop.  fetchWithRateLimit sleeps
\* before the fetch, and after it when the rate limit is used up; each
\* README fetched sleeps too.
CollectGithubPage ==
    /\ coWhich = "collectGitHub" /\ coPc = "loop"
    /\ coQuery <= Len(SearchQueriesGithub)
    /\ coRequests' = coRequests + 1
    /\ coLastGap' = IF coRequests = 0 THEN -1 ELSE coSince + RateLimitDelayGithub
    /\ \E outcome \in PageOutcomes, rateLimited \in BOOLEAN, readmes \in 0..MaxReadmes :
          LET waited == IF rateLimited THEN RateLimitWaitMin ELSE 0 IN
          CASE outcome = "rejected" ->
                 /\ NextPage(MaxPagesGithub)
                 /\ coSince' = LoopDelayGithub
            [] outcome \in {"empty", "not_ok"} ->
                 /\ NextQuery
                 /\ coSince' = waited
            [] OTHER ->
                 /\ NextPage(MaxPagesGithub)
                 /\ coSince' = waited + readmes * (ReadmeDelay + ReadmePause)
                                + LoopDelayGithub
    /\ UNCHANGED <<coWhich, coPc, othersCollect>>

CollectGithubDone ==
    /\ coWhich = "collectGitHub" /\ coPc = "loop"
    /\ coQuery > Len(SearchQueriesGithub)
    /\ coPc' = "done"
    /\ UNCHANGED <<coWhich, coQuery, coPage, coRequests, coSince, coLastGap,
                   othersCollect>>

NextCollect ==
    CollectDataPage \/ CollectDataDone \/ CollectGithubPage \/ CollectGithubDone

SpecCollect == InitCollect /\ [][NextCollect]_vars

\* C9: in both collectors, every search request after the first is issued
\* only after a delay since the previous one returned.
C9_DelayBetweenSearches == coRequests >= 2 => coLastGap > 0

(***************************************************************************)
(* POST /api/chat.  Texts are drawn from a few messages; what a text       *)
(* contains and its lowercase form are tabulated for them.                 *)
(***************************************************************************)
MaxRows == 2

MatchCount == 5
SalesScriptCalls == 1
ValuePropositionCalls == 4

Messages ==
    {"hello", "New Opportunity in retail", "customer service automation",
     "machine learning", "tell me more"}

\* message.toLowerCase()
ToLowerCase(text) ==
    IF text = "New Opportunity in retail" THEN "new opportunity in retail" ELSE text

\* text.includes(part), for the lowercased messages.
Includes(text, part) ==
    <<text, part>> \in
        {<<"hello", "hello">>,
         <<"new opportunity in retail", "new opportunity">>,
         <<"customer service automation", "customer service">>,
         <<"customer service automation", "automation">>,
         <<"machine learning", "hi">>}

\* brainstormKeywords; the Chinese keywords are written in pinyin.
brainstormKeywords ==
    <<"xin yingyong fangxiang", "xin jihui", "xin changjing", "you shenme xin",
      "chuangxin fangxiang", "naoli fengbao", "linggan", "faxian xin",
      "tansuo xin", "qushi fangxiang", "zuijin you shenme xin", "xinxing yingyong",
      "chuangxin anli", "ai agent qushi", "ai you shenme xin", "ai xin fangxiang",
      "agent xin yingyong", "brainstorm", "trends", "new opportunity",
      "new direction", "faxian jihui", "tansuo fangxiang", "chuangxin">>

\* A value on which .toLowerCase() can be called.
IsString(v) == v \notin {Missing, JsNull, JsZero, JsOne, JsFalse}

Modes == {"chat", "brainstorm", "sales_script", "extract_info"}

\* The request body: not JSON at all, the JSON value null, or an object.
ChatBodies ==
    {[kind |-> "invalid_json"], [kind |-> "null"]}
    \cup [kind : {"object"},
          message : Messages \cup {Missing, "", JsOne},
          mode : Modes \cup {Missing, "", "other"},
          caseInfo : {Missing, "case"},
          customerIndustry : {Missing, "", "retail"}]

\* The LLM answers every text generation call of the request, fails every
\* one, or has no API key; the embedding call succeeds or fails; the LLM
\* answers extract_info with or without a JSON object.  Each table queried
\* holds rows rows, or the queries fail.
ChatEnvs ==
    [llm : {"ok", "error", "no_key"}, embed : BOOLEAN, json : BOOLEAN,
     rows : 0..MaxRows, dbError : BOOLEAN]

\* Calls that reach the LLM provider, out of attempted ones in sequence:
\* all of them, the first one only (it throws), or none.
LlmCallsMade(env, attempted) ==
    CASE env.llm = "ok" -> attempted
      [] env.llm = "error" -> IF attempted > 0 THEN 1 ELSE 0
      [] OTHER -> 0

BrainstormTypes == <<"case", "scenario", "trend">>

\* getEmbedding: a request of its own to the provider, made when there is
\* a key; it fails or succeeds whatever the text generation call does.
EmbeddingCallsMade(env) == IF env.llm = "no_key" THEN 0 ELSE 1
getEmbeddingOk(env) == env.llm # "no_key" /\ env.embed

\* retrieveFromDatabase: nothing without an embedding; one query per type;
\* calculateSimilarity throws on a query that is not a string.
retrieveFromDatabase(query, env) ==
    IF ~getEmbeddingOk(env) THEN [retrieved |-> 0, dbCalls |-> 0]
    ELSE LET found == IF env.dbError THEN 0 ELSE env.rows * Len(BrainstormTypes) IN
         [retrieved |-> IF found > 0 /\ ~IsString(query) THEN 0
                        ELSE Min(found, MatchCount),
          dbCalls |-> Len(BrainstormTypes)]

\* agentRAG: the sources are dropped when the LLM call fails.
agentRAG(query, env) ==
    LET r == retrieveFromDatabase(query, env) IN
    [sources |-> IF env.llm = "ok" THEN r.retrieved ELSE 0,
     retrievedCount |-> r.retrieved,
     dbCalls |-> r.dbCalls,
     llmCalls |-> EmbeddingCallsMade(env) + LlmCallsMade(env, 1)]

handleBrainstorm(message, env) ==
    LET ragResult == agentRAG(message, env) IN
    [result |-> [type |-> "brainstorm",
                 sources |-> ragResult.sources,
                 retrievedCount |-> ragResult.retrievedCount,
                 message |-> IF ragResult.retrievedCount > 0
                             THEN [text |-> "based on cases",
                                   count |-> ragResult.retrievedCount]
                             ELSE [text |-> "no data"]],
     llmCalls |-> ragResult.llmCalls, dbCalls |-> ragResult.dbCalls]

\* handleChat: the first template whose words the lowercased message has.
handleChat(message) ==
    LET lowerMessage == ToLowerCase(message) IN
    CASE Includes(lowerMessage, "kefu") \/ Includes(lowerMessage, "customer service")
           -> "customer service"
      [] Includes(lowerMessage, "zidonghua") \/ Includes(lowerMessage, "automation")
           -> "automation"
      [] \/ Includes(lowerMessage, "ni hao") \/ Includes(lowerMessage, "hello")
         \/ Includes(lowerMessage, "hi")
           -> "greeting"
      [] OTHER -> "default"

Json(status, fields) == [status |-> status] @@ fields
Calls(llm, db) == [llmCalls |-> llm, dbCalls |-> db]

\* The message has one of the brainstorm keywords.
HasBrainstormKeyword(message) ==
    \E i \in DOMAIN brainstormKeywords :
       Includes(ToLowerCase(message), ToLowerCase(brainstormKeywords[i]))

\* A resolution that scans the message whether or not a mode is given.
ResolvedModeAlwaysScans(body) ==
    IF Truthy(body.message) /\ HasBrainstormKeyword(body.message)
    THEN "brainstorm"
    ELSE OrElse(body.mode, "chat")

\* The mode the switch runs: the mode given, or the one the scan finds.
ResolvedMode(body) ==
    IF ~Truthy(body.mode) /\ Truthy(body.message)
       /\ HasBrainstormKeyword(body.message)
    THEN "brainstorm"
    ELSE OrElse(body.mode, "chat")

\* POST: the response, with the calls made while building it and the
\* branch of the switch that ran ("none" when the request got to none).
POST(body, env) ==
    IF body.kind # "object"
    THEN Json(500, [error |-> "thrown", handledAs |-> "none"] @@ Calls(0, 0))
    ELSE IF ~Truthy(body.message) /\ ~Truthy(body.caseInfo)
    THEN Json(400, [error |-> "Missing required fields: message or caseInfo",
                    handledAs |-> "none"] @@ Calls(0, 0))
    ELSE IF ~Truthy(body.mode) /\ Truthy(body.message) /\ ~IsString(body.message)
    THEN Json(500, [error |-> "thrown", handledAs |-> "none"] @@ Calls(0, 0))
    ELSE LET resolvedMode == ResolvedMode(body)
             ok(branch, result, calls) ==
                 Json(200, [success |-> TRUE, data |-> result,
                            mode |-> OrElse(body.mode, "chat"),
                            handledAs |-> branch] @@ calls)
             no(branch, status, error, calls) ==
                 Json(status, [error |-> error, handledAs |-> branch] @@ calls)
         IN CASE resolvedMode = "brainstorm" ->
                   LET b == handleBrainstorm(body.message, env) IN
                   ok("brainstorm", b.result, Calls(b.llmCalls, b.dbCalls))
              [] resolvedMode = "sales_script" ->
                   IF ~Truthy(body.caseInfo) \/ ~Truthy(body.customerIndustry)
                   THEN no("sales_script", 400,
                           "caseInfo and customerIndustry are required", Calls(0, 0))
                   ELSE ok("sales_script", [type |-> "sales_script"],
                           Calls(LlmCallsMade(env, SalesScriptCalls)
                                 + LlmCallsMade(env, ValuePropositionCalls), 0))
              [] resolvedMode = "extract_info" ->
                   IF env.llm = "ok" /\ env.json
                   THEN ok("extract_info", [type |-> "case info"],
                           Calls(LlmCallsMade(env, 1), 0))
                   ELSE no("extract_info", 500,
                           IF env.llm = "ok" THEN "Failed to extract case info"
                           ELSE "thrown",
                           Calls(LlmCallsMade(env, 1), 0))
              [] OTHER ->
                   IF ~IsString(body.message)
                   THEN no("chat", 500, "thrown", Calls(0, 0))
                   ELSE ok("chat", [type |-> "chat", reply |-> handleChat(body.message)],
                           Calls(0, 0))

InitChat ==
    /\ chRequest \in ChatBodies
    /\ chEnv \in ChatEnvs
    /\ chResponse = NoResponse
    /\ IdleScore /\ IdleDedup /\ IdleImport /\ IdleExtractDb /\ IdleExtractFn /\ IdleBatch
    /\ IdleCollect /\ IdleConc /\ IdleTask /\ IdleRoi /\ IdleGetCases /\ IdleInfer

ChatPOST ==
    /\ chResponse = NoResponse
    /\ chResponse' = POST(chRequest, chEnv)
    /\ UNCHANGED <<chRequest, chEnv, othersChat>>

NextChat == ChatPOST

SpecChat == InitChat /\ [][NextChat]_vars

\* The body carries the field: it is a JSON object with a truthy value there.
Has(body, field) == body.kind = "object" /\ Truthy(body[field])

\* C10: POST /api/chat answers 400 with an error message, having made no
\* LLM or database call, whenever the body has neither message nor
\* caseInfo, and whenever the mode is sales_script and caseInfo or
\* customerIndustry is missing.
C10_Rejects400 ==
    (/\ chResponse # NoResponse
     /\ \/ ~Has(chRequest, "message") /\ ~Has(chRequest, "caseInfo")
        \/ /\ chRequest.kind = "object" /\ chRequest.mode = "sales_script"
           /\ ~Has(chRequest, "caseInfo") \/ ~Has(chRequest, "customerIndustry"))
    => /\ chResponse.status = 400
       /\ "error" \in DOMAIN chResponse
       /\ chResponse.llmCalls = 0 /\ chResponse.dbCalls = 0

(***************************************************************************)
(* The awaits of four programs, call by call: POST /api/chat in brainstorm *)
(* mode, SceneTranslatorAgent.execute, POST /api/chat/task and the main of *)
(* extract-db.js.  cnOut holds the calls that were issued and have not     *)
(* returned.                                                               *)
(***************************************************************************)
MaxFanOut == 3
MaxScriptCases == 3

FlowSteps == 7

Handlers == {"chat", "scene", "task", "script"}

\* One database query per type, issued together by types.map(async ...).
SearchCalls == {"db:" \o BrainstormTypes[i] : i \in DOMAIN BrainstormTypes}

\* One LLM call per case, issued together by cases.map(...).
AnalyzeCalls(n) == {<<"llm", i>> : i \in 1..n}

\* An agentRAG that calls the LLM without waiting for the searches.
GenerateCallsEarly(pending) == {"llm"}

\* agentRAG calls the LLM once retrieveFromDatabase has returned, that is
\* once Promise.all has every search result.
GenerateCalls(pending) == IF pending = {} THEN {"llm"} ELSE {}

InitConc ==
    /\ cnHandler \in Handlers
    /\ cnPc = "start" /\ cnOut = {} /\ cnResponded = FALSE
    /\ cnN = 0 /\ cnI = 0 /\ cnTask = "none" /\ cnCalls = 0 /\ cnFailed = 0
    /\ IdleScore /\ IdleDedup /\ IdleImport /\ IdleExtractDb /\ IdleExtractFn /\ IdleBatch
    /\ IdleCollect /\ IdleChat /\ IdleTask /\ IdleRoi /\ IdleGetCases /\ IdleInfer

\* The calls an action issues and the failure it is handed are counted.
Tally(issued, hasFailed) ==
    /\ cnCalls' = cnCalls + issued
    /\ cnFailed' = cnFailed + (IF hasFailed THEN 1 ELSE 0)

\* POST /api/chat, brainstorm: retrieveFromDatabase asks for the embedding.
ConcChatStart ==
    /\ cnHandler = "chat" /\ cnPc = "start"
    /\ cnOut' = {"embedding"}
    /\ cnPc' = "embedding"
    /\ Tally(1, FALSE)
    /\ UNCHANGED <<cnHandler, cnResponded, cnN, cnI, cnTask, othersConc>>

\* The embedding returns: every search is issued; a failed embedding
\* leaves retrieveFromDatabase with [] and agentRAG calls the LLM.
ConcChatEmbedded ==
    /\ cnHandler = "chat" /\ cnPc = "embedding"
    /\ \E ok \in BOOLEAN :
          /\ IF ok
             THEN cnOut' = SearchCalls /\ cnPc' = "searching"
             ELSE cnOut' = GenerateCalls({}) /\ cnPc' = "generating"
          /\ Tally(Cardinality(cnOut'), ~ok)
    /\ UNCHANGED <<cnHandler, cnResponded, cnN, cnI, cnTask, othersConc>>

\* One search returns, in any order, with rows or with an error.
ConcChatSearched ==
    /\ cnHandler = "chat" /\ cnPc = "searching"
    /\ \E call \in cnOut, ok \in BOOLEAN :
          LET pending == cnOut \ {call} IN
          /\ cnOut' = pending \cup GenerateCalls(pending)
          /\ cnPc' = IF pending = {} THEN "generating" ELSE "searching"
          /\ Tally(Cardinality(GenerateCalls(pending)), ~ok)
    /\ UNCHANGED <<cnHandler, cnResponded, cnN, cnI, cnTask, othersConc>>

\* The LLM returns, or fails, and POST returns its response.
ConcChatAnswered ==
    /\ cnHandler = "chat" /\ cnPc = "generating"
    /\ cnOut' = cnOut \ {"llm"}
    /\ cnPc' = "done"
    /\ cnResponded' = TRUE
    /\ \E ok \in BOOLEAN : Tally(0, ~ok)
    /\ UNCHANGED <<cnHandler, cnN, cnI, cnTask, othersConc>>

\* SceneTranslatorAgent.execute on n cases: Promise.all over one
\* analyzeTechnicalFeatures per case.
ConcSceneStart ==
    /\ cnHandler = "scene" /\ cnPc = "start"
    /\ \E n \in 0..MaxFanOut :
          /\ cnN' = n
          /\ IF n = 0
             THEN cnOut' = {} /\ cnPc' = "done" /\ cnResponded' = TRUE
             ELSE cnOut' = AnalyzeCalls(n) /\ cnPc' = "analyzing"
                  /\ UNCHANGED cnResponded
          /\ Tally(n, FALSE)
    /\ UNCHANGED <<cnHandler, cnI, cnTask, othersConc>>

\* One analysis returns, its failure caught; after the last, the scenes are
\* built and generateSceneSuggestions calls the LLM.
ConcSceneAnalyzed ==
    /\ cnHandler = "scene" /\ cnPc = "analyzing"
    /\ \E call \in cnOut, ok \in BOOLEAN :
          LET pending == cnOut \ {call} IN
          /\ IF pending = {}
             THEN cnOut' = {"llm"} /\ cnPc' = "suggesting"
             ELSE cnOut' = pending /\ cnPc' = "analyzing"
          /\ Tally(IF pending = {} THEN 1 ELSE 0, ~ok)
    /\ UNCHANGED <<cnHandler, cnResponded, cnN, cnI, cnTask, othersConc>>

ConcSceneSuggested ==
    /\ cnHandler = "scene" /\ cnPc = "suggesting"
    /\ cnOut' = {}
    /\ cnPc' = "done"
    /\ cnResponded' = TRUE
    /\ \E ok \in BOOLEAN : Tally(0, ~ok)
    /\ UNCHANGED <<cnHandler, cnN, cnI, cnTask, othersConc>>

\* POST /api/chat/task: executeBrainstormTask is called and not awaited; it
\* runs up to the first call of runBrainstormFlow, and POST responds.
ConcTaskPOST ==
    /\ cnHandler = "task" /\ cnPc = "start"
    /\ \E query, key \in BOOLEAN :
          IF ~query
          THEN /\ cnOut' = {} /\ cnPc' = "done"
               /\ Tally(0, FALSE)
               /\ UNCHANGED <<cnI, cnTask>>
          ELSE IF key
          THEN /\ cnOut' = {<<"flow", 1>>} /\ cnPc' = "background"
               /\ cnI' = 1 /\ cnTask' = "processing"
               /\ Tally(1, FALSE)
          ELSE /\ cnOut' = {} /\ cnPc' = "done"
               /\ cnTask' = "failed"
               /\ Tally(0, TRUE)
               /\ UNCHANGED cnI
    /\ cnResponded' = TRUE
    /\ UNCHANGED <<cnHandler, cnN, othersConc>>

\* One step of runBrainstormFlow returns: the flow throws when the trend
\* or the insight step failed, and goes on to its next step otherwise.
ConcTaskStep ==
    /\ cnHandler = "task" /\ cnPc = "background"
    /\ \E ok \in BOOLEAN :
          IF ~ok /\ cnI \in {1, 4}
          THEN /\ cnOut' = {} /\ cnPc' = "done" /\ cnTask' = "failed"
               /\ Tally(0, TRUE)
               /\ UNCHANGED cnI
          ELSE IF cnI < FlowSteps
          THEN /\ cnOut' = {<<"flow", cnI + 1>>} /\ cnI' = cnI + 1
               /\ Tally(1, ~ok)
               /\ UNCHANGED <<cnPc, cnTask>>
          ELSE /\ cnOut' = {} /\ cnPc' = "done" /\ cnTask' = "completed"
               /\ Tally(0, ~ok)
               /\ UNCHANGED cnI
    /\ UNCHANGED <<cnHandler, cnResponded, cnN, othersConc>>

\* extract-db.js main: the select.
ConcScriptStart ==
    /\ cnHandler = "script" /\ cnPc = "start"
    /\ cnOut' = {"db:select"}
    /\ cnPc' = "selecting"
    /\ Tally(1, FALSE)
    /\ UNCHANGED <<cnHandler, cnResponded, cnN, cnI, cnTask, othersConc>>

\* The select returns: the loop starts with the LLM call for the first case.
ConcScriptSelected ==
    /\ cnHandler = "script" /\ cnPc = "selecting"
    /\ \E n \in 0..MaxScriptCases :
          /\ cnN' = n
          /\ IF n = 0
             THEN cnOut' = {} /\ cnPc' = "done" /\ cnResponded' = TRUE
                  /\ UNCHANGED cnI
             ELSE cnOut' = {"llm"} /\ cnPc' = "extracting" /\ cnI' = 1
                  /\ UNCHANGED cnResponded
          /\ Tally(IF n = 0 THEN 0 ELSE 1, FALSE)
    /\ UNCHANGED <<cnHandler, cnTask, othersConc>>

\* After a case: the LLM call for the next one, or the end of main.
ScriptNextCase(hasFailed) ==
    IF cnI < cnN
    THEN cnOut' = {"llm"} /\ cnPc' = "extracting" /\ cnI' = cnI + 1
         /\ Tally(1, hasFailed)
         /\ UNCHANGED cnResponded
    ELSE cnOut' = {} /\ cnPc' = "done" /\ cnResponded' = TRUE
         /\ Tally(0, hasFailed)
         /\ UNCHANGED cnI

\* The LLM call returns: the update is issued when there is a result.
ConcScriptExtracted ==
    /\ cnHandler = "script" /\ cnPc = "extracting"
    /\ \E hasResult \in BOOLEAN :
          IF hasResult
          THEN cnOut' = {"db:update"} /\ cnPc' = "updating"
               /\ Tally(1, FALSE)
               /\ UNCHANGED <<cnI, cnResponded>>
          ELSE ScriptNextCase(TRUE)
    /\ UNCHANGED <<cnHandler, cnN, cnTask, othersConc>>

\* The update returns, with or without an error.
ConcScriptUpdated ==
    /\ cnHandler = "script" /\ cnPc = "updating"
    /\ \E ok \in BOOLEAN : ScriptNextCase(~ok)
    /\ UNCHANGED <<cnHandler, cnN, cnTask, othersConc>>

NextConc ==
    \/ ConcChatStart \/ ConcChatEmbedded \/ ConcChatSearched \/ ConcChatAnswered
    \/ ConcSceneStart \/ ConcSceneAnalyzed \/ ConcSceneSuggested
    \/ ConcTaskPOST \/ ConcTaskStep
    \/ ConcScriptStart \/ ConcScriptSelected \/ ConcScriptExtracted
    \/ ConcScriptUpdated

SpecConc == InitConc /\ [][NextConc]_vars

MaxTasks == 1

TaskIds == 1..MaxTasks
NoTask == [status |-> "absent"]

\* A createTask whose task is processing from the start.
createTaskProcessing(store, id) ==
    [store EXCEPT ![id] = [status |-> "processing", progress |-> 0,
                           message |-> "created", result |-> Missing,
                           error |-> Missing]]

\* createTask: tasks.set(taskId, { status: 'pending', progress: 0, ... }).
createTask(store, id) ==
    [store EXCEPT ![id] = [status |-> "pending", progress |-> 0,
                           message |-> "created", result |-> Missing,
                           error |-> Missing]]

\* updateTask: Object.assign on the stored task; nothing when there is none.
updateTask(store, id, updates) ==
    IF store[id] = NoTask THEN store
    ELSE [store EXCEPT ![id] =
            [f \in DOMAIN store[id] |->
                IF f \in DOMAIN updates THEN updates[f] ELSE store[id][f]]]

\* The statuses a task has been given, kept beside the store.
Given(history, store, id, updates) ==
    IF store[id] # NoTask /\ "status" \in DOMAIN updates
    THEN [history EXCEPT ![id] = Append(@, updates.status)]
    ELSE history

\* getTask
getTask(store, id) == IF id \in DOMAIN store THEN store[id] ELSE NoTask

ProcessingUpdate == [status |-> "processing", progress |-> 10, message |-> "analysing"]
CollectingUpdate == [progress |-> 20, message |-> "collecting trends"]
CompletedUpdate ==
    [status |-> "completed", progress |-> 100, message |-> "done", result |-> "data"]
FailedUpdate == [status |-> "failed", message |-> "failed", error |-> "error"]

\* The steps of runBrainstormFlow whose failure makes the flow throw:
\* trend discovery and insight generation.
ThrowingSteps == {1, 4}

InitTask ==
    /\ tkStore = [id \in TaskIds |-> NoTask]
    /\ tkNext = 1
    /\ tkFlow = [id \in TaskIds |-> 0]
    /\ tkExpired = {}
    /\ tkHistory = [id \in TaskIds |-> <<>>]
    /\ tkLost = {} /\ tkReported = {} /\ tkPost = 0
    /\ tkGet = [flip |-> FALSE]
    /\ IdleScore /\ IdleDedup /\ IdleImport /\ IdleExtractDb /\ IdleExtractFn /\ IdleBatch /\ IdleCollect /\ IdleChat /\ IdleConc
    /\ IdleRoi /\ IdleGetCases /\ IdleInfer

\* POST /api/chat/task: 500 for the body null, 400 without a query;
\* otherwise the task is created, set processing, and executeBrainstormTask
\* runs up to the first LLM call of the flow before POST responds.  With no
\* API key every call throws at once and the flow has failed by then.
TaskPOST ==
    \E body \in {"null", "no query", "query"}, key \in BOOLEAN :
       /\ body = "query" => tkNext <= MaxTasks
       /\ tkPost' = CASE body = "null" -> 500 [] body = "no query" -> 400 [] OTHER -> 200
       /\ IF body # "query"
          THEN UNCHANGED <<tkStore, tkNext, tkFlow, tkHistory>>
          ELSE LET id == tkNext
                   s1 == createTask(tkStore, id)
                   h1 == [tkHistory EXCEPT ![id] = <<s1[id].status>>]
                   s2 == updateTask(s1, id, ProcessingUpdate)
                   h2 == Given(h1, s1, id, ProcessingUpdate)
                   s3 == updateTask(s2, id, CollectingUpdate)
               IN /\ tkNext' = tkNext + 1
                  /\ IF key
                     THEN /\ tkStore' = s3
                          /\ tkHistory' = h2
                          /\ tkFlow' = [tkFlow EXCEPT ![id] = 1]
                     ELSE /\ tkStore' = updateTask(s3, id, FailedUpdate)
                          /\ tkHistory' = Given(h2, s3, id, FailedUpdate)
                          /\ UNCHANGED tkFlow
       /\ UNCHANGED <<tkExpired, tkLost, tkReported, tkGet, othersTask>>

\* What follows a step of the flow that returned ok or failed.
AfterStep(step, ok) ==
    IF ~ok /\ step \in ThrowingSteps THEN "throw"
    ELSE IF step < FlowSteps THEN "next"
    ELSE "return"

\* executeBrainstormTask after an await: the flow goes on, or ends and the
\* task is updated to completed or failed.
TaskFlowStep(id) ==
    /\ tkFlow[id] > 0
    /\ \E ok \in BOOLEAN :
          LET after == AfterStep(tkFlow[id], ok)
              updates == IF after = "throw" THEN FailedUpdate ELSE CompletedUpdate
          IN IF after = "next"
             THEN /\ tkFlow' = [tkFlow EXCEPT ![id] = @ + 1]
                  /\ UNCHANGED <<tkStore, tkHistory, tkLost>>
             ELSE /\ tkFlow' = [tkFlow EXCEPT ![id] = 0]
                  /\ tkStore' = updateTask(tkStore, id, updates)
                  /\ tkHistory' = Given(tkHistory, tkStore, id, updates)
                  /\ tkLost' = IF tkStore[id] = NoTask THEN tkLost \cup {id} ELSE tkLost
    /\ UNCHANGED <<tkNext, tkExpired, tkReported, tkPost, tkGet, othersTask>>

\* The data of a GET response; undefined fields are left out of the JSON.
TaskData(task) ==
    [status |-> task.status, progress |-> task.progress, message |-> task.message,
     result |-> IF task.status = "completed" THEN task.result ELSE Missing,
     error |-> IF task.status = "failed" THEN task.error ELSE Missing]

\* A GET that answers for a task it does not find.
TaskGETResponseNo404(req, store) ==
    IF ~req.given THEN [status |-> 400]
    ELSE [status |-> 200,
          data |-> [status |-> "pending", progress |-> 0, message |-> "created",
                    result |-> Missing, error |-> Missing]]

\* GET /api/chat/task?taskId=...
TaskGETResponse(req, store) ==
    IF ~req.given THEN [status |-> 400]
    ELSE LET task == getTask(store, req.id) IN
         IF task = NoTask THEN [status |-> 404]
         ELSE [status |-> 200, data |-> TaskData(task)]

\* The requests: no taskId, an id no task ever had (0), or a task's id.
TaskGETRequests ==
    {[given |-> FALSE, id |-> 0]} \cup [given : {TRUE}, id : 0..MaxTasks]

TaskGET ==
    \E req \in TaskGETRequests :
       LET resp == TaskGETResponse(req, tkStore) IN
       /\ tkGet' = [flip |-> ~tkGet.flip, req |-> req, resp |-> resp]
       /\ tkReported' = IF resp.status = 200 /\ resp.data.status = "processing"
                        THEN tkReported \cup {req.id} ELSE tkReported
       /\ UNCHANGED <<tkStore, tkNext, tkFlow, tkExpired, tkHistory, tkLost, tkPost,
                      othersTask>>

\* Time passes: a stored task becomes older than maxAge.
TaskAges(id) ==
    /\ tkStore[id] # NoTask /\ id \notin tkExpired
    /\ tkExpired' = tkExpired \cup {id}
    /\ UNCHANGED <<tkStore, tkNext, tkFlow, tkHistory, tkLost, tkReported, tkPost,
                   tkGet, othersTask>>

\* cleanupTasks, run by setInterval: every task older than maxAge is deleted.
cleanupTasks ==
    /\ \E id \in TaskIds : tkStore[id] # NoTask /\ id \in tkExpired
    /\ tkStore' = [id \in TaskIds |-> IF id \in tkExpired THEN NoTask ELSE tkStore[id]]
    /\ UNCHANGED <<tkNext, tkFlow, tkExpired, tkHistory, tkLost, tkReported, tkPost,
                   tkGet, othersTask>>

NextTask ==
    \/ TaskPOST
    \/ \E id \in TaskIds : TaskFlowStep(id)
    \/ TaskGET
    \/ \E id \in TaskIds : TaskAges(id)
    \/ cleanupTasks

SpecTask == InitTask /\ [][NextTask]_vars

\* Every LLM call of the flow eventually returns or fails.
SpecTaskLive == SpecTask /\ \A id \in TaskIds : WF_vars(TaskFlowStep(id))

\* C11: GET /api/chat/task answers 400 when taskId is absent, 404 when the
\* store holds no task of that id, and otherwise 200 with the stored
\* status, progress and message, result being present only if the status
\* is completed and error only if it is failed.
C11_GetTask ==
    [][tkGet'.flip # tkGet.flip =>
         LET req == tkGet'.req
             resp == tkGet'.resp
         IN /\ ~req.given => resp.status = 400
            /\ req.given /\ (req.id \notin TaskIds \/ tkStore[req.id] = NoTask)
                  => resp.status = 404
            /\ req.given /\ req.id \in TaskIds /\ tkStore[req.id] # NoTask =>
                  /\ resp.status = 200
                  /\ resp.data.status = tkStore[req.id].status
                  /\ resp.data.progress = tkStore[req.id].progress
                  /\ resp.data.message = tkStore[req.id].message
                  /\ resp.data.result # Missing => resp.data.status = "completed"
                  /\ resp.data.error # Missing => resp.data.status = "failed"]_vars

\* C11 witness: GET answered 200 for a completed task, with its result and
\* no error.
C11_Witness ==
    /\ tkGet.flip /\ tkGet.req.given /\ tkGet.resp.status = 200
    /\ tkGet.resp.data.status = "completed"
    /\ tkGet.resp.data.result = "data" /\ tkGet.resp.data.error = Missing


(***************************************************************************)
(* POST /api/roi: calculateROI with the fallback getDefaultROI.            *)
(***************************************************************************)
RoiFields == {"labor_savings", "annual_savings", "payback_period", "confidence"}

\* JSON values of a field of the LLM's answer: missing, null, the numbers
\* 0 and 5 ("<0>", "<5>"), and strings.
JsFive == "<5>"
RoiValues == {Missing, JsNull, JsZero, JsFive, "5", "0", "12abc", "abc", "", "3.7"}

\* parseInt(v): the leading integer of String(v), None for NaN.
ParseInt(v) ==
    CASE v \in {JsFive, "5"} -> Some(5)
      [] v \in {JsZero, "0"} -> Some(0)
      [] v = "12abc" -> Some(12)
      [] v = "3.7" -> Some(3)
      [] v = "8" -> Some(8)
      [] OTHER -> None

IsNaN(n) == n = None

\* parseInt(v) || fallback
ParseIntOr(v, fallback) ==
    IF IsNaN(ParseInt(v)) \/ ParseInt(v) = Some(0) THEN fallback ELSE ParseInt(v)[1]

RoiMembers ==
    [labor_savings : RoiValues, annual_savings : RoiValues,
     payback_period : {Missing, "8"}, confidence : {Missing, "di"}]
NoMembers == [f \in RoiFields |-> Missing]

RoiTexts ==
    {<<>>, <<"t">>, <<"{", "m">>, <<"{", "}">>, <<"{", "}", "m", "}">>}
RoiLlm ==
    [kind : {"no_key", "error", "not_a_string"}, text : {<<>>}, members : {NoMembers}]
    \cup [kind : {"ok"}, text : RoiTexts, members : {NoMembers}]
    \cup [kind : {"ok"}, text : {<<"{", "m", "}">>, <<"t", "{", "m", "}", "t">>},
          members : RoiMembers]

\* calculateROI: the parsed object, null, or a throw of callQwen or of
\* result.match that the function does not catch.
calculateROI(llm) ==
    IF llm.kind # "ok" THEN Threw
    ELSE LET block == MatchJsonBlock(llm.text) IN
         IF block # <<>> /\ JsonParseOk(block)
         THEN [kind |-> "object",
               value |-> IF block = <<"{", "m", "}">> THEN llm.members ELSE NoMembers]
         ELSE ReturnedNull

CompanySizes == {"daxing qiye", "zhongxing qiye", "xiaoxing qiye"}
baseValues ==
    [s \in CompanySizes |->
        CASE s = "daxing qiye" -> [labor |-> 5, annual |-> 600000, payback |-> 6]
          [] s = "zhongxing qiye" -> [labor |-> 3, annual |-> 360000, payback |-> 8]
          [] OTHER -> [labor |-> 1, annual |-> 120000, payback |-> 10]]

\* useCaseMultiplier, in tenths.
UseCases ==
    {"zhineng kefu", "liucheng zidonghua", "shuju fenxi", "AI zhushou",
     "neirong shengcheng", "zhishiku", "sousuo", "qita"}
useCaseMultiplier ==
    [u \in UseCases |->
        CASE u = "zhineng kefu" -> 12 [] u = "liucheng zidonghua" -> 15
          [] u = "shuju fenxi" -> 13 [] u = "AI zhushou" -> 11
          [] u = "neirong shengcheng" -> 10 [] u = "zhishiku" -> 14
          [] u = "sousuo" -> 12 [] OTHER -> 10]

\* Math.round(a / b) for positive integers.
RoundDiv(a, b) == (2 * a + b) \div (2 * b)

getDefaultROI(industry, useCase, companySize) ==
    LET base == IF companySize \in CompanySizes THEN baseValues[companySize]
                ELSE baseValues["zhongxing qiye"]
        multiplier == IF useCase \in UseCases THEN useCaseMultiplier[useCase] ELSE 10
    IN [labor_savings |-> RoundDiv(base.labor * multiplier, 10),
        annual_savings |-> RoundDiv(base.annual * multiplier, 10),
        payback_period |-> RoundDiv(base.payback * 10, multiplier),
        confidence |-> IF multiplier >= 13 THEN "gao"
                       ELSE IF multiplier >= 10 THEN "zhong" ELSE "di",
        note |-> "estimate"]

\* The bodies: none at all, text that is not JSON, the JSON null, or an object.
RoiBodies ==
    [kind : {"none", "invalid_json", "null"}]
    \cup [kind : {"object"},
          industry : {Missing, "", "lingshou"},
          useCase : {Missing, "", "zhishiku"},
          companySize : {Missing, "", "daxing qiye"}]

RoiPOST(body, llm) ==
    IF body.kind # "object"
    THEN [status |-> 200, success |-> TRUE, isDefault |-> TRUE,
          data |-> getDefaultROI("tongyong",
                                 IF body.kind = "none" THEN "qita"
                                 ELSE "liucheng zidonghua",
                                 "zhongxing qiye"),
          error |-> "message"]
    ELSE IF Falsy \cap {body.industry, body.useCase, body.companySize} # {}
    THEN [status |-> 400, error |-> "Missing required fields"]
    ELSE LET roiData == calculateROI(llm) IN
         IF roiData = Threw
         THEN [status |-> 200, success |-> TRUE, isDefault |-> TRUE,
               data |-> getDefaultROI("tongyong", "liucheng zidonghua",
                                      "zhongxing qiye"),
               error |-> "message"]
         ELSE IF \/ roiData = ReturnedNull
                 \/ ~Truthy(roiData.value.labor_savings)
                 \/ ~Truthy(roiData.value.annual_savings)
                 \/ IsNaN(ParseInt(roiData.value.labor_savings))
                 \/ IsNaN(ParseInt(roiData.value.annual_savings))
         THEN [status |-> 200, success |-> TRUE, isDefault |-> TRUE,
               data |-> getDefaultROI(body.industry, body.useCase, body.companySize)]
         ELSE [status |-> 200, success |-> TRUE, isDefault |-> FALSE,
               data |-> [labor_savings |-> ParseIntOr(roiData.value.labor_savings, 0),
                         annual_savings |-> ParseIntOr(roiData.value.annual_savings, 0),
                         payback_period |-> ParseIntOr(roiData.value.payback_period, 12),
                         confidence |-> OrElse(roiData.value.confidence, "zhong")]]

InitRoi ==
    /\ roBody \in RoiBodies
    /\ roLlm \in RoiLlm
    /\ roResponse = [status |-> 0]
    /\ IdleScore /\ IdleDedup /\ IdleImport /\ IdleExtractDb /\ IdleExtractFn /\ IdleBatch /\ IdleCollect /\ IdleChat /\ IdleConc /\ IdleTask
    /\ IdleGetCases /\ IdleInfer

RoiRequest ==
    /\ roResponse.status = 0
    /\ roResponse' = RoiPOST(roBody, roLlm)
    /\ UNCHANGED <<roBody, roLlm, othersRoi>>

NextRoi == RoiRequest

SpecRoi == InitRoi /\ [][NextRoi]_vars

\* The request carries all three required fields.
RoiComplete ==
    /\ roBody.kind = "object"
    /\ Falsy \cap {roBody.industry, roBody.useCase, roBody.companySize} = {}

\* C12: POST /api/roi answers 400 when industry, useCase or companySize is
\* missing; in every other case it answers 200 with success: true, and
\* isDefault is true exactly when the data came from getDefaultROI.
C12_RoiAnswers ==
    roResponse.status # 0 =>
       IF ~RoiComplete THEN roResponse.status = 400
       ELSE /\ roResponse.status = 200 /\ roResponse.success
            /\ roResponse.isDefault <=> "note" \in DOMAIN roResponse.data


(***************************************************************************)
(* Claims about the answers of POST /api/chat.                             *)
(***************************************************************************)
\* The response is a brainstorm answer.
BrainstormAnswer == chResponse.status = 200 /\ chResponse.data.type = "brainstorm"

\* C13: in every brainstorm answer of POST /api/chat retrievedCount is the
\* number of entries of sources, and the message says the answer is based
\* on N cases of the case library exactly when N = retrievedCount > 0.
C13_SourcesCounted ==
    BrainstormAnswer =>
       LET data == chResponse.data IN
       /\ data.retrievedCount = data.sources
       /\ data.message.text = "based on cases" <=> data.retrievedCount > 0
       /\ data.message.text = "based on cases" => data.message.count = data.retrievedCount


(***************************************************************************)
(* Claims about the life of a task.                                        *)
(***************************************************************************)
Terminal(task) == task.status \in {"completed", "failed"}

IsPrefix(s, t) == Len(s) <= Len(t) /\ s = SubSeq(t, 1, Len(s))

\* C14: the status of a task created through POST /api/chat/task only moves
\* pending -> processing -> completed or failed, and once the task is
\* completed or failed no later step changes its status, result or error.
C14_StatusOrder ==
    /\ [](\A id \in TaskIds :
            \/ IsPrefix(tkHistory[id], <<"pending", "processing", "completed">>)
            \/ IsPrefix(tkHistory[id], <<"pending", "processing", "failed">>))
    /\ [][\A id \in TaskIds :
            Terminal(tkStore[id]) /\ tkStore'[id] # NoTask =>
               /\ tkStore'[id].status = tkStore[id].status
               /\ tkStore'[id].result = tkStore[id].result
               /\ tkStore'[id].error = tkStore[id].error]_vars

\* C14 witness: a task went pending, processing, completed, and a GET was
\* answered after that.
C14_Witness ==
    \E id \in TaskIds :
       /\ tkHistory[id] = <<"pending", "processing", "completed">>
       /\ tkStore[id].status = "completed"
       /\ tkGet.flip /\ tkGet.req.id = id /\ tkGet.resp.status = 200


\* The task has been given a terminal status.
ReachedTerminal(id) ==
    \E i \in DOMAIN tkHistory[id] : tkHistory[id][i] \in {"completed", "failed"}

\* C15: every task created by POST /api/chat/task eventually reaches the
\* status completed or failed, provided each LLM call of the flow
\* eventually returns or fails; no task stays processing forever.
C15_TaskEnds ==
    \A id \in TaskIds : (tkHistory[id] # <<>>) ~> ReachedTerminal(id)

\* C16: a task that GET has reported as processing is not reported 404
\* before it is completed or failed: cleanupTasks removes no task that is
\* still pending or processing, and no terminal update is lost because its
\* task was removed.
C16_NoLossWhileRunning ==
    \A id \in TaskIds :
       /\ tkHistory[id] # <<>> /\ ~ReachedTerminal(id) => tkStore[id] # NoTask
       /\ id \notin tkLost
       /\ id \in tkReported /\ ~ReachedTerminal(id) =>
             ~("resp" \in DOMAIN tkGet /\ tkGet.req.id = id /\ tkGet.resp.status = 404)


(***************************************************************************)
(* caseDb.getCases of lib/db.ts, called page after page.  A row is named   *)
(* by its position in the ordering (quality_score descending, then         *)
(* created_at descending), from 0.                                         *)
(***************************************************************************)
MaxTableRows == 4
MaxLimit == 3
DefaultLimit == 20

\* n || fallback for an optional number: undefined, NaN and 0 are falsy.
NumberOr(opt, fallback) == IF opt = None \/ opt = Some(0) THEN fallback ELSE opt[1]

\* The positions from..to as a sequence.
Positions(from, to) == [i \in 1..(to - from + 1) |-> from + i - 1]

\* query.range(from, to) on rows rows: the rows at the positions from..to
\* that exist.  A range whose end is before its start is refused or
\* yields no rows, as the database answers.
RangeResults(rows, from, to) ==
    IF to < from THEN {Threw, Returned(<<>>)}
    ELSE {Returned(Positions(from, Min(to, rows - 1)))}

\* getCases: .range(options.offset || 0, (options.limit || 20) - 1)
RangeOf(options) ==
    [from |-> NumberOr(options.offset, 0),
     to |-> NumberOr(options.limit, DefaultLimit) - 1]

getCases(rows, options) ==
    RangeResults(rows, RangeOf(options).from, RangeOf(options).to)

InitGetCases ==
    /\ gcRows \in 0..MaxTableRows
    /\ gcLimit \in {None} \cup {Some(l) : l \in 0..MaxLimit}
    /\ gcOffset \in {None} \cup {Some(o) : o \in 0..MaxTableRows}
    /\ gcPages = <<>>
    /\ IdleScore /\ IdleDedup /\ IdleImport /\ IdleExtractDb /\ IdleExtractFn /\ IdleBatch /\ IdleCollect /\ IdleChat /\ IdleConc /\ IdleTask /\ IdleRoi
    /\ IdleInfer

\* A page is asked for: the first at any offset, each later one at the
\* offset after the last page's.
GetCasesPage ==
    /\ NumberOr(gcOffset, 0) < gcRows
    /\ IF gcPages = <<>> THEN TRUE ELSE gcPages[Len(gcPages)].result # Threw
    /\ \E result \in getCases(gcRows, [limit |-> gcLimit, offset |-> gcOffset]) :
          gcPages' = Append(gcPages, [offset |-> NumberOr(gcOffset, 0), result |-> result])
    /\ gcOffset' = Some(NumberOr(gcOffset, 0) + NumberOr(gcLimit, DefaultLimit))
    /\ UNCHANGED <<gcRows, gcLimit, othersGetCases>>

NextGetCases == GetCasesPage

SpecGetCases == InitGetCases /\ [][NextGetCases]_vars

\* C17: getCases with limit L and offset O returns the rows at the
\* positions O .. O+L-1 of the ordering that exist, so that consecutive
\* pages (offset 0, L, 2L, ...) do not overlap and together cover every
\* row.
C17_Pages ==
    LET L == NumberOr(gcLimit, DefaultLimit) IN
    /\ \A k \in DOMAIN gcPages :
          /\ k > 1 => gcPages[k].offset = gcPages[k - 1].offset + L
          /\ gcPages[k].result =
                Returned(Positions(gcPages[k].offset,
                                   Min(gcPages[k].offset + L - 1, gcRows - 1)))
    /\ gcPages # <<>> /\ gcPages[1].offset = 0 /\ NumberOr(gcOffset, 0) >= gcRows =>
          \A row \in 0..(gcRows - 1) :
             \E k \in DOMAIN gcPages :
                /\ gcPages[k].result # Threw
                /\ \E i \in DOMAIN gcPages[k].result.fields :
                      gcPages[k].result.fields[i] = row


\* The request got past the required-field check and has been answered.
PassedCheck ==
    /\ chResponse # NoResponse
    /\ Has(chRequest, "message") \/ Has(chRequest, "caseInfo")

\* The branch the request is to be handled in: that of the mode given,
\* unrecognised modes going to chat; without a mode, brainstorm when the
\* message has a keyword and chat when not.
ExpectedBranch(body) ==
    IF Truthy(body.mode)
    THEN IF body.mode \in Modes THEN body.mode ELSE "chat"
    ELSE IF HasBrainstormKeyword(body.message) THEN "brainstorm" ELSE "chat"

C19_ModeNamesHandler ==
    chResponse.status = 200 => chResponse.mode = chResponse.handledAs

\* C20: every request past the required-field check that is handled in
\* chat mode is answered 200 with one of the four templated replies of
\* handleChat, the first that matches in the order customer service,
\* automation, greeting, default, and no LLM or database call is made.
C20_ChatTemplates ==
    PassedCheck /\ chResponse.handledAs = "chat" =>
       LET lowerMessage == ToLowerCase(chRequest.message)
           service == Includes(lowerMessage, "kefu")
                         \/ Includes(lowerMessage, "customer service")
           automation == Includes(lowerMessage, "zidonghua")
                            \/ Includes(lowerMessage, "automation")
           greeting == \/ Includes(lowerMessage, "ni hao")
                       \/ Includes(lowerMessage, "hello")
                       \/ Includes(lowerMessage, "hi")
       IN /\ chResponse.status = 200
          /\ chResponse.llmCalls = 0 /\ chResponse.dbCalls = 0
          /\ chResponse.data.reply =
                IF service THEN "customer service"
                ELSE IF automation THEN "automation"
                ELSE IF greeting THEN "greeting"
                ELSE "default"


(***************************************************************************)
(* Claims about the runs of importData of import-merged.js.                *)
(***************************************************************************)
\* importData of import-merged.js is past its batch loop.
MergedRunEnded == imPc = "merged" /\ imI >= Len(imData)

\* C21: a second run of importData of import-merged.js on the same data
\* file, after a first run in which every batch insert succeeded and with
\* no other writer in between, inserts no row (imported = 0) and leaves the
\* cases table as it found it.
C21_SecondRunInsertsNothing ==
    (/\ MergedRunEnded
     /\ imPrev.script = "merged" /\ imPrev.insertsOk
     /\ imPrev.file = imRun.file)
    => imported = 0 /\ cases = imRun.start

\* C22: at the end of importData of import-merged.js imported + skipped is
\* the number of records left after deduplication, for every mix of new
\* records, stored records and failing batches.
C22_CountersAddUp ==
    MergedRunEnded => imported + skipped = Len(imData)


(***************************************************************************)
(* Claims about the output of processRawData.                              *)
(***************************************************************************)
\* C23: the data processRawData returns is ordered by non-increasing
\* quality_score, and for each source_url the surviving record is an input
\* record of that source_url with the highest quality_score, the earliest
\* in input order among those of equal score.
C23_BestPerUrl ==
    ddOut["processRawData"].ran =>
       LET in == DedupInput("processRawData", ddIn)
           out == ddOut["processRawData"].data
       IN /\ \A k \in 1..(Len(out) - 1) :
                out[k].quality_score >= out[k + 1].quality_score
          /\ \A k \in DOMAIN out :
                /\ \E j \in DOMAIN in : in[j] = out[k]
                /\ \A j \in DOMAIN in :
                      in[j].source_url = out[k].source_url =>
                         \/ in[j].quality_score < out[k].quality_score
                         \/ /\ in[j].quality_score = out[k].quality_score
                            /\ in[j].pos >= out[k].pos

\* C23 witness: of three records of one source_url the second and third
\* share the highest score, and the second is the one that survived.
C23_Witness ==
    /\ ddOut["processRawData"].ran
    /\ LET in == DedupInput("processRawData", ddIn)
           out == ddOut["processRawData"].data
       IN /\ Len(in) = 3 /\ Len(out) = 1
          /\ in[1].quality_score < in[2].quality_score
          /\ in[2].quality_score = in[3].quality_score
          /\ out[1].pos = 2


(***************************************************************************)
(* The keyword tables: inferIndustry and inferUseCase of import-merged.js  *)
(* and of process-data.  A text is one of a few sample strings; what       *)
(* matters of it is which keywords occur in its lowercase.  Chinese labels *)
(* are written in pinyin.                                                  *)
(***************************************************************************)
InferTexts ==
    {"Hospital Bank Chatbot", "School Store", "restaurant menu", "Sherpa"}
    \cup {"Summarizer", "test runner", "Search Data Assistant", "misc", "undefined"}

\* The keywords k for which text.toLowerCase().includes(k).
KeywordsIn(text) ==
    CASE text = "Hospital Bank Chatbot" -> {"bank", "chatbot", "hospital"}
      [] text = "School Store" -> {"school", "store"}
      [] text = "restaurant menu" -> {"menu", "restaurant"}
      [] text = "Sherpa" -> {"rpa"}
      [] text = "Summarizer" -> {"summar"}
      [] text = "test runner" -> {"test"}
      [] text = "Search Data Assistant" -> {"assistant", "data", "search"}
      [] text = "misc" -> {}
      [] text = "undefined" -> {}
      [] OTHER -> {}

\* The keywords occurring in a text put together from parts with spaces; no
\* keyword of the tables used on such a text holds a space, so none arises
\* across the joints.
KeywordsInParts(parts) == UNION {KeywordsIn(parts[i]) : i \in DOMAIN parts}

\* import-merged.js: const industries = {...}, in the order of Object.entries.
industriesMerged ==
    <<[label |-> "jinrong",
       keywords |-> <<"finance", "bank", "payment", "trading", "crypto",
                      "fintech">>],
      [label |-> "yiliao",
       keywords |-> <<"health", "medical", "doctor", "hospital", "patient">>],
      [label |-> "jiaoyu",
       keywords |-> <<"education", "learning", "school", "student",
                      "course">>],
      [label |-> "lingshou",
       keywords |-> <<"e-commerce", "shop", "retail", "store", "commerce">>],
      [label |-> "wuliu",
       keywords |-> <<"logistics", "shipping", "delivery", "transport">>],
      [label |-> "zhizao",
       keywords |-> <<"manufacturing", "factory", "production",
                      "industrial">>]>>

\* process-data: INDUSTRY_KEYWORDS
INDUSTRY_KEYWORDS ==
    <<[label |-> "jinrong",
       keywords |-> <<"finance", "bank", "payment", "trading", "crypto",
                      "fintech", "loan">>],
      [label |-> "yiliao",
       keywords |-> <<"health", "medical", "doctor", "hospital",
                      "patient", "clinic", "pharma">>],
      [label |-> "jiaoyu",
       keywords |-> <<"education", "learning", "school", "student",
                      "course", "tutor">>],
      [label |-> "lingshou",
       keywords |-> <<"e-commerce", "shop", "retail", "store", "mall",
                      "commerce", "amazon">>],
      [label |-> "wuliu",
       keywords |-> <<"logistics", "shipping", "delivery", "transport",
                      "warehouse", "supply">>],
      [label |-> "zhizao",
       keywords |-> <<"manufacturing", "factory", "production",
                      "industrial", "assembly">>],
      [label |-> "canyin",
       keywords |-> <<"restaurant", "food", "restaurant", "kitchen",
                      "catering", "menu">>],
      [label |-> "dichan",
       keywords |-> <<"real estate", "property", "housing", "building",
                      "land">>]>>

\* import-merged.js inferUseCase: const useCases = [...]
useCasesMerged ==
    <<[keywords |-> <<"chatbot">>, label |-> "zhineng kefu"],
      [keywords |-> <<"assistant">>, label |-> "AI zhushou"],
      [keywords |-> <<"automation">>, label |-> "liucheng zidonghua"],
      [keywords |-> <<"rpa">>, label |-> "RPA"],
      [keywords |-> <<"data">>, label |-> "shuju fenxi"],
      [keywords |-> <<"content">>, label |-> "neirong shengcheng"],
      [keywords |-> <<"writing">>, label |-> "xiezuo fuzhu"],
      [keywords |-> <<"translation">>, label |-> "fanyi"],
      [keywords |-> <<"search">>, label |-> "sousuo"],
      [keywords |-> <<"qa">>, label |-> "wenda xitong"],
      [keywords |-> <<"knowledge">>, label |-> "zhishiku"],
      [keywords |-> <<"test">>, label |-> "zidonghua ceshi"]>>

\* process-data inferUseCase: const useCases = [...]
useCasesProcess ==
    <<[keywords |-> <<"chatbot">>, label |-> "zhineng kefu"],
      [keywords |-> <<"assistant">>, label |-> "AI zhushou"],
      [keywords |-> <<"automation">>, label |-> "liucheng zidonghua"],
      [keywords |-> <<"rpa">>, label |-> "RPA"],
      [keywords |-> <<"data">>, label |-> "shuju fenxi"],
      [keywords |-> <<"content">>, label |-> "neirong shengcheng"],
      [keywords |-> <<"writing">>, label |-> "xiezuo fuzhu"],
      [keywords |-> <<"translation">>, label |-> "fanyi"],
      [keywords |-> <<"summar">>, label |-> "zhaiyao shengcheng"],
      [keywords |-> <<"search">>, label |-> "sousuo"],
      [keywords |-> <<"qa">>, label |-> "wenda xitong"],
      [keywords |-> <<"knowledge">>, label |-> "zhishiku"]>>

\* An entry has a keyword among those that occur.
EntryHits(entry, occurring) ==
    \E i \in DOMAIN entry.keywords : entry.keywords[i] \in occurring

\* A lookup that returns the label of the last entry that hits.
RECURSIVE LastLabel(_, _, _)
LastLabel(table, occurring, none) ==
    IF table = <<>> THEN none
    ELSE IF EntryHits(table[Len(table)], occurring) THEN table[Len(table)].label
    ELSE LastLabel(SubSeq(table, 1, Len(table) - 1), occurring, none)

\* for (const entry of table) if (a keyword of entry occurs) return its label;
\* none after the loop.
RECURSIVE FirstLabel(_, _, _)
FirstLabel(table, occurring, none) ==
    IF table = <<>> THEN none
    ELSE IF EntryHits(Head(table), occurring) THEN Head(table).label
    ELSE FirstLabel(Tail(table), occurring, none)

\* `${item.project_name} ${item.description || ''} ${item.topics?.join(' ')}`
TextMerged(item) ==
    <<TemplateStr(item.project_name), OrElse(item.description, ""),
      TemplateStr(item.topics)>>

\* `${item.project_name} ${item.description || ''}`
TextProcess(item) == <<TemplateStr(item.project_name), OrElse(item.description, "")>>

inferIndustryMerged(item) ==
    FirstLabel(industriesMerged, KeywordsInParts(TextMerged(item)), "tongyong")

inferUseCaseMerged(item) ==
    FirstLabel(useCasesMerged, KeywordsInParts(TextMerged(item)), "qita")

\* process-data inferIndustry(text): null for no text and for no match.
inferIndustryProcess(text) ==
    IF ~Truthy(text) THEN JsNull
    ELSE FirstLabel(INDUSTRY_KEYWORDS, KeywordsIn(text), JsNull)

inferUseCaseProcess(item) ==
    FirstLabel(useCasesProcess, KeywordsInParts(TextProcess(item)), "qita")

\* The labels of the record the script stores for the item, with what
\* inferIndustry returned.
Inferred(script, item) ==
    IF script = "merged"
    THEN [returned |-> inferIndustryMerged(item),
          industry |-> inferIndustryMerged(item),
          use_case |-> inferUseCaseMerged(item)]
    ELSE [returned |-> inferIndustryProcess(item.description),
          industry |-> OrElse(inferIndustryProcess(item.description), "tongyong"),
          use_case |-> inferUseCaseProcess(item)]

InferItems ==
    [project_name : {Missing, "misc", "Sherpa", "test runner"},
     description : {Missing, ""} \cup InferTexts,
     topics : {Missing, "misc", "Search Data Assistant", "School Store"}]

InitInfer ==
    /\ nfItem \in InferItems
    /\ nfOut = [s \in {"merged", "process"} |-> NotInferred]
    /\ IdleScore /\ IdleDedup /\ IdleImport /\ IdleExtractDb /\ IdleExtractFn /\ IdleBatch /\ IdleCollect /\ IdleChat /\ IdleConc /\ IdleTask /\ IdleRoi /\ IdleGetCases

\* importData of import-merged.js maps the item.
InferMerged ==
    /\ nfOut["merged"] = NotInferred
    /\ nfOut' = [nfOut EXCEPT !["merged"] = Inferred("merged", nfItem)]
    /\ UNCHANGED <<nfItem, othersInfer>>

\* processRawData maps the item.
InferProcess ==
    /\ nfOut["process"] = NotInferred
    /\ nfOut' = [nfOut EXCEPT !["process"] = Inferred("process", nfItem)]
    /\ UNCHANGED <<nfItem, othersInfer>>

NextInfer == InferMerged \/ InferProcess

SpecInfer == InitInfer /\ [][NextInfer]_vars


\* The label is that of the first entry of the table, in table order, with
\* a keyword among the occurring ones, or none when no entry has one.
IsFirstLabel(label, table, occurring, none) ==
    \/ \E i \in DOMAIN table :
          /\ EntryHits(table[i], occurring)
          /\ \A j \in 1..(i - 1) : ~EntryHits(table[j], occurring)
          /\ label = table[i].label
    \/ /\ \A i \in DOMAIN table : ~EntryHits(table[i], occurring)
       /\ label = none

LabelsOf(table) == {table[i].label : i \in DOMAIN table}

\* C24 as stated: both inferIndustry functions return the first matching
\* label or the default label "tongyong".
C24_Original ==
    /\ nfOut["merged"] # NotInferred =>
          IsFirstLabel(nfOut["merged"].returned, industriesMerged,
                       KeywordsInParts(TextMerged(nfItem)), "tongyong")
    /\ nfOut["process"] # NotInferred =>
          IsFirstLabel(nfOut["process"].returned, INDUSTRY_KEYWORDS,
                       KeywordsIn(OrElse(nfItem.description, "")), "tongyong")

\* C24: inferIndustry and inferUseCase return the label of the first table
\* entry, in table order, with a keyword occurring in the lowercased text;
\* when none occurs inferUseCase returns "qita", inferIndustry of
\* import-merged.js returns "tongyong" and inferIndustry of process-data
\* returns null, in whose place processRawData stores "tongyong".  The
\* stored label is always a table label or the default.
C24_FirstMatchingLabel ==
    /\ nfOut["merged"] # NotInferred =>
          LET occurring == KeywordsInParts(TextMerged(nfItem)) IN
          /\ IsFirstLabel(nfOut["merged"].returned, industriesMerged, occurring,
                          "tongyong")
          /\ nfOut["merged"].industry = nfOut["merged"].returned
          /\ IsFirstLabel(nfOut["merged"].use_case, useCasesMerged, occurring, "qita")
          /\ nfOut["merged"].industry \in LabelsOf(industriesMerged) \cup {"tongyong"}
          /\ nfOut["merged"].use_case \in LabelsOf(useCasesMerged) \cup {"qita"}
    /\ nfOut["process"] # NotInferred =>
          LET description == OrElse(nfItem.description, "") IN
          /\ IsFirstLabel(nfOut["process"].returned, INDUSTRY_KEYWORDS,
                          KeywordsIn(description), JsNull)
          /\ nfOut["process"].industry = OrElse(nfOut["process"].returned, "tongyong")
          /\ IsFirstLabel(nfOut["process"].use_case, useCasesProcess,
                          KeywordsInParts(TextProcess(nfItem)), "qita")
          /\ nfOut["process"].industry \in LabelsOf(INDUSTRY_KEYWORDS) \cup {"tongyong"}
          /\ nfOut["process"].use_case \in LabelsOf(useCasesProcess) \cup {"qita"}

\* C24 witness: a text with a keyword of a later entry before a keyword of
\* an earlier one got the earlier entry's label from both scripts, and a
\* topic that only import-merged.js reads gave it another use case.
C24_Witness ==
    /\ nfItem.description = "Hospital Bank Chatbot"
    /\ nfItem.topics = "Search Data Assistant"
    /\ nfOut["merged"] # NotInferred /\ nfOut["process"] # NotInferred
    /\ nfOut["merged"].industry = "jinrong" /\ nfOut["process"].industry = "jinrong"
    /\ nfOut["merged"].use_case = "zhineng kefu"

====
